---- MODULE Spec2Model ----
(***************************************************************************)
(* Model of the AnChoi single-page client (frontend/src/App.jsx): the      *)
(* nearest-neighbour route ordering (orderByNearest) and the optimistic    *)
(* create / delete / load protocol around the spot collection, the plan    *)
(* and the selection.                                                      *)
(***************************************************************************)
EXTENDS Integers, Sequences, FiniteSets

(***************************************************************************)
(* Bounds of the model.                                                    *)
(***************************************************************************)
\* longest spot list handed to orderByNearest
MaxSpots == 3
\* spots the backend holds when the page is opened
InitSpots == 1
\* createSpot calls that pass their guards in one session
MaxCreates == 2
\* DELETE /spots requests in flight at once
MaxDeletes == 1
\* GET requests (spots, shared plan) in flight at once
MaxLoads == 1
\* longest plan built with addToPlan
MaxPlan == 1
\* longest plan built with addToPlan where the plan is reordered
MaxItems == 3
\* autoOrderPlan calls in flight at once
MaxReorders == 1
\* longest spots list of a plan snapshot, and most items with spot fields
MaxWire == 2

NULL == "null"

(***************************************************************************)
(* Generic sequence helpers (Array.prototype.filter / map / some).         *)
(***************************************************************************)
RECURSIVE SelectSeqBy(_, _)
\* s.filter(Test), for a set Keep of the elements that pass Test
SelectSeqBy(s, Keep) ==
    IF s = <<>> THEN <<>>
    ELSE IF Head(s) \in Keep
         THEN <<Head(s)>> \o SelectSeqBy(Tail(s), Keep)
         ELSE SelectSeqBy(Tail(s), Keep)

Range(s) == {s[i] : i \in 1..Len(s)}

SeqsUpTo(S, n) == UNION {[1..k -> S] : k \in 0..n}

(***************************************************************************)
(* RouteOptimizer: haversineKm and orderByNearest.                         *)
(*                                                                         *)
(* Coordinates are degrees taken from a grid of angles at which the        *)
(* haversine term h = sin^2(dLat/2) + cos(lat1) cos(lat2) sin^2(dLng/2)    *)
(* is an exact multiple of 1/16, so that the distance 2 R asin(sqrt(h))    *)
(* is computed exactly as the code computes it (rounded to whole km).      *)
(***************************************************************************)
Lats == {-60, 0, 60}
Lngs == {0, 60}
Points == Lats \X Lngs

Abs(x) == IF x < 0 THEN -x ELSE x

\* 2 * cos(lat): cos 0 = 1, cos 60 = 1/2
Cos2(lat) == IF Abs(lat) = 60 THEN 1 ELSE 2

\* 4 * sin^2(d / 2) for d in {0, 60, 90, 120, 180} degrees
Sin2Half4(d) ==
    CASE Abs(d) = 0   -> 0
      [] Abs(d) = 60  -> 1
      [] Abs(d) = 90  -> 2
      [] Abs(d) = 120 -> 3
      [] Abs(d) = 180 -> 4

\* 16 * h of haversineKm
H16(a, b) ==
    4 * Sin2Half4(b.lat - a.lat)
      + Cos2(a.lat) * Cos2(b.lat) * Sin2Half4(b.lng - a.lng)

\* round(2 * 6371 * asin(sqrt(k / 16))) for k = 0..16
ArcKm ==
    <<0, 3220, 4605, 5706, 6672, 7559, 8398, 9209, 10008, 10806, 11617,
      12457, 13343, 14309, 15411, 16795, 20015>>

haversineKm(a, b) == ArcKm[H16(a, b) + 1]

\* the initial bestDist of a selection round: larger than every distance
Infinity == 99999

\* the mutation d <= bestDist of the comparison: the last minimum wins
CloserOrEqual(d, bestDist) == d <= bestDist

\* the mutation d > bestDist of the comparison, from bestDist = -Infinity
Farther(d, bestDist) == bestDist = Infinity \/ d > bestDist

\* d < bestDist
Closer(d, bestDist) == d < bestDist

RECURSIVE BestScan(_, _, _, _, _)
\* the for loop of one selection round, from index i on (1-based)
BestScan(current, remaining, i, bestIdx, bestDist) ==
    IF i > Len(remaining) THEN bestIdx
    ELSE LET d == haversineKm(current, remaining[i])
         IN IF Closer(d, bestDist)
            THEN BestScan(current, remaining, i + 1, i, d)
            ELSE BestScan(current, remaining, i + 1, bestIdx, bestDist)

\* let bestIdx = 0; let bestDist = Infinity; for (...)
BestIdx(current, remaining) == BestScan(current, remaining, 1, 1, Infinity)

\* the mutation remaining.splice(0, 1): always drops the first element
SpliceFirst(s, idx) == Tail(s)

\* the mutation remaining.splice(bestIdx, 2): drops two elements
SpliceTwo(s, idx) ==
    [i \in 1..(IF idx < Len(s) THEN Len(s) - 2 ELSE Len(s) - 1) |->
        IF i < idx THEN s[i] ELSE s[i + 2]]

\* remaining.splice(bestIdx, 1): what is left of the list
Splice(s, idx) ==
    [i \in 1..(Len(s) - 1) |-> IF i < idx THEN s[i] ELSE s[i + 1]]

RECURSIVE OrderLoop(_, _, _)
\* the while loop of orderByNearest
OrderLoop(current, remaining, ordered) ==
    IF Len(remaining) = 0 THEN ordered
    ELSE LET bestIdx == BestIdx(current, remaining)
             next == remaining[bestIdx]
         IN OrderLoop(next, Splice(remaining, bestIdx), Append(ordered, next))

orderByNearest(start, spotList) == OrderLoop(start, spotList, <<>>)


(***************************************************************************)
(* Text: a string is a sequence of characters; String.prototype.trim and   *)
(* toLowerCase.                                                            *)
(***************************************************************************)
RECURSIVE TrimLeft(_)
TrimLeft(s) == IF s # <<>> /\ Head(s) = " " THEN TrimLeft(Tail(s)) ELSE s

RECURSIVE TrimRight(_)
TrimRight(s) ==
    IF s # <<>> /\ s[Len(s)] = " " THEN TrimRight(SubSeq(s, 1, Len(s) - 1)) ELSE s

Trim(s) == TrimRight(TrimLeft(s))

LowerChar(c) == CASE c = "A" -> "a" [] c = "B" -> "b" [] OTHER -> c

ToLowerCase(s) == [i \in 1..Len(s) |-> LowerChar(s[i])]

\* what the user may have typed into the address field
FormAddresses == {<<" ">>, <<"a">>, <<" ", "A">>, <<"b">>}

\* what the form holds at a submit: complete, or with one field blank
Forms ==
    {[name |-> <<"x">>, url |-> <<"x">>, address |-> a] : a \in FormAddresses}
      \cup {[name |-> <<" ">>, url |-> <<"x">>, address |-> <<"a">>],
            [name |-> <<"x">>, url |-> <<" ">>, address |-> <<"a">>]}

(***************************************************************************)
(* Spots, plan items and the collaborators' answers.                       *)
(***************************************************************************)
\* null where a spot, a plan item or a geocode result is expected
NoSpot ==
    [id |-> 0, lat |-> 0, lng |-> 0, optimistic |-> FALSE, numeric |-> TRUE,
     text |-> FALSE]
NoItem == [spotId |-> 0, visited |-> TRUE]
NoLocation == [lat |-> 999, lng |-> 999]

\* const defaultCenter (a point of the grid stands for the configured one)
defaultCenter == [lat |-> 0, lng |-> 0]

\* "optimistic-" + crypto.randomUUID(): the k-th placeholder id, distinct
\* from every backend id (backend ids are 1, 2, ...)
OptimisticId(k) == -k

\* const optimisticSpot = {...}
OptimisticSpot(optimisticId) ==
    [id |-> optimisticId, lat |-> defaultCenter.lat, lng |-> defaultCenter.lng,
     optimistic |-> TRUE, numeric |-> TRUE,
     text |-> FALSE]

\* a backend record as the client holds it (no _optimistic field), its
\* coordinates being finite numbers (numeric: Number.isFinite of lat and
\* lng; text: lat and lng are numeric strings)
Confirmed(r) ==
    [id |-> r.id, lat |-> r.lat, lng |-> r.lng, optimistic |-> FALSE,
     numeric |-> TRUE, text |-> FALSE]

\* how a response may carry the coordinates of a record: as numbers, as
\* numeric strings, or not at all
Encodings == {"number", "string", "none"}

\* one encoding for each of these records
EncodingsOf(records) == [{r.id : r \in records} -> Encodings]

\* every record with numbers
AllNumbers(records) == [id \in {r.id : r \in records} |-> "number"]

\* typeof x.lat === "string" ? parseFloat(x.lat) : x.lat
ParseIfString(enc) == IF enc = "string" THEN "number" ELSE enc

\* raw.map(parse lat and lng).filter(... Number.isFinite(x.lat) &&
\* Number.isFinite(x.lng)) on the records of a response carried as encOf says
ParsedFinite(list, encOf) ==
    LET finite == SelectSeqBy(list,
                    {r \in Range(list) : ParseIfString(encOf[r.id]) = "number"})
    IN [i \in 1..Len(finite) |-> Confirmed(finite[i])]

\* const created = await res.json(): the record as the response carries it
AsReturned(created, enc) ==
    [created EXCEPT !.numeric = (enc = "number"), !.text = (enc = "string")]

\* the mutation that looks the address up as it was typed
RawKey(rawAddress) == rawAddress

\* const key = rawAddress.trim().toLowerCase()
GeoKey(rawAddress) == ToLowerCase(Trim(rawAddress))

\* POST /geocode at the backend: the one address it can resolve, however
\* it is cased and spaced
GeocoderAnswer(rawAddress) ==
    IF ToLowerCase(Trim(rawAddress)) = <<"a">>
    THEN [lat |-> 60, lng |-> 0]
    ELSE NoLocation

\* geoCacheRef.current.set(key, result)
CachePut(cache, key, result) ==
    [k \in DOMAIN cache \cup {key} |-> IF k = key THEN result ELSE cache[k]]

\* the mutation that caches the outcome of a failed lookup as well
CacheAlways(cache, key, result) == CachePut(cache, key, result)

\* if (!res.ok) return null; ... geoCacheRef.current.set(key, result): the
\* cache after a lookup that gave result (NoLocation when it failed)
CacheAfter(cache, key, result) ==
    IF result = NoLocation THEN cache ELSE CachePut(cache, key, result)

\* spots.find((s) => s.id === id)
getSpotById(list, id) ==
    IF \E i \in 1..Len(list) : list[i].id = id
    THEN list[CHOOSE i \in 1..Len(list) :
                /\ list[i].id = id
                /\ \A j \in 1..(i - 1) : list[j].id # id]
    ELSE NoSpot

\* prev.filter((s) => s.id !== id)
WithoutId(list, id) == SelectSeqBy(list, {x \in Range(list) : x.id # id})

\* the mutation that forgets to remove the placeholder on failure
KeepAll(list, id) == list

\* the rollback of a failed creation: prev.filter((s) => s.id !== optimisticId)
Rollback(list, id) == WithoutId(list, id)

\* prev.filter((x) => x.spotId !== id)
WithoutSpotId(plan, id) == SelectSeqBy(plan, {x \in Range(plan) : x.spotId # id})

\* prev.map((s) => (s.id === optimisticId ? {...s, lat, lng} : s))
MoveSpot(list, id, location) ==
    [i \in 1..Len(list) |->
        IF list[i].id = id
        THEN [list[i] EXCEPT !.lat = location.lat, !.lng = location.lng]
        ELSE list[i]]

\* the mutation [created, ...prev.filter((s) => s.id !== optimisticId)]
CreatedInFront(list, id, created) == <<created>> \o WithoutId(list, id)

\* the mutation [created, ...prev.filter(...)] is not the code: the code is
\* prev.map((s) => (s.id === optimisticId ? created : s))
ReplaceSpot(list, id, created) ==
    [i \in 1..Len(list) |-> IF list[i].id = id THEN created ELSE list[i]]

\* planItems.find((x) => !x.visited)
FirstUnvisited(plan) ==
    IF \E i \in 1..Len(plan) : ~plan[i].visited
    THEN plan[CHOOSE i \in 1..Len(plan) :
                /\ ~plan[i].visited
                /\ \A j \in 1..(i - 1) : plan[j].visited]
    ELSE NoItem

\* the mutation that switches follow mode off
NoFollow(plan, list, sel) == sel

\* focusSpot(spot): lat and lng are parsed where they are strings;
\* if (!Number.isFinite(lat) || !Number.isFinite(lng)) return;
\* setSelectedSpot({ ...spot, lat, lng })
focusSpot(spot, sel) ==
    IF spot.numeric \/ spot.text
    THEN [spot EXCEPT !.numeric = TRUE, !.text = FALSE]
    ELSE sel

\* the follow-mode effect, run after every change of planItems:
\* focusNextUnvisited() with the spots and selection of that render
FollowEffect(plan, list, sel) ==
    LET next == FirstUnvisited(plan)
    IN IF next = NoItem THEN sel
       ELSE LET spot == getSpotById(list, next.spotId)
            IN IF spot = NoSpot THEN sel ELSE focusSpot(spot, sel)

RECURSIVE SortedIds(_)
SortedIds(S) ==
    IF S = {} THEN <<>>
    ELSE LET m == CHOOSE x \in S : \A y \in S : x <= y
         IN <<m>> \o SortedIds(S \ {m})

\* GET /spots at the backend: its records, in id order
ServerList(records) ==
    LET ids == SortedIds({r.id : r \in records})
    IN [i \in 1..Len(ids) |-> CHOOSE r \in records : r.id = ids[i]]

\* the mutation that merges without looking at ids
AppendAll(acc, list) == acc \o list

\* new Map(prev.map((x) => [x.id, x])); byId.set(...); Array.from(byId.values())
RECURSIVE MergeById(_, _)
MergeById(acc, list) ==
    IF list = <<>> THEN acc
    ELSE LET x == Head(list)
         IN IF \E i \in 1..Len(acc) : acc[i].id = x.id
            THEN MergeById(ReplaceSpot(acc, x.id, x), Tail(list))
            ELSE MergeById(Append(acc, x), Tail(list))

RECURSIVE InsertByOrder(_, _)
InsertByOrder(sorted, x) ==
    IF sorted = <<>> THEN <<x>>
    ELSE IF x.order < Head(sorted).order
         THEN <<x>> \o sorted
         ELSE <<Head(sorted)>> \o InsertByOrder(Tail(sorted), x)

\* the mutation that keeps the items in the order of the response
NotSorted(items) == items

RECURSIVE SortByOrder(_)
\* items.sort((a, b) => a.order - b.order): stable
SortByOrder(items) ==
    IF items = <<>> THEN <<>>
    ELSE InsertByOrder(SortByOrder(SubSeq(items, 1, Len(items) - 1)), items[Len(items)])

\* an item of a plan snapshot as the response carries it: spotId is the
\* string of that number when text holds (0: the empty string) and is not
\* a string otherwise; order is a number when ordered holds; named and
\* addressed: it carries a non-blank spotName, address; finite: its lat and
\* lng convert to finite numbers
WireItem(spotId, text, visited, order, ordered) ==
    [spotId |-> spotId, text |-> text, visited |-> visited, order |-> order,
     ordered |-> ordered, named |-> FALSE, addressed |-> FALSE, finite |-> FALSE,
     lat |-> 0, lng |-> 0]

\* an item with a string spotId and a numeric order, without spot fields
Item(spotId, visited, order) == WireItem(spotId, TRUE, visited, order, TRUE)

\* an entry of the spots list of a snapshot (id 0: no usable id)
WireSpot(id, named, addressed, finite, lat, lng) ==
    [id |-> id, named |-> named, addressed |-> addressed, finite |-> finite,
     lat |-> lat, lng |-> lng]

\* the backend holds no snapshot the session fixes
NoSnapshot == [spots |-> <<>>, items |-> <<>>]

\* the snapshots GET /public/plans/{id} may return: spot entries (named
\* or not, with finite coordinates or not) and items
SharedPayloads ==
    {[spots |-> <<>>, items |-> <<>>],
     [spots |-> <<WireSpot(1, TRUE, TRUE, TRUE, 0, 60),
                  WireSpot(2, TRUE, TRUE, FALSE, 0, 0),
                  WireSpot(1, TRUE, TRUE, TRUE, 60, 60)>>,
      items |-> <<Item(2, FALSE, 1), Item(1, TRUE, 0)>>]}

\* rawItems.filter((x) => x && (x.spotName || x.name || x.address || ...))
DerivedFromItems(items) ==
    SelectSeqBy(items, {x \in Range(items) : x.named \/ x.addressed})

\* normalizeSpot of an item: getSpotId finds no id and takes a string spotId
ItemAsSpot(x) ==
    WireSpot(IF x.text THEN x.spotId ELSE 0, x.named, x.addressed, x.finite,
             x.lat, x.lng)

\* the mutation that asks for an id and a name only
NamedSpot(x) == x.id # 0 /\ x.named

\* isValidSpotDetail: string id, spotName and address, none of them blank
IsValidSpotDetail(x) == x.id # 0 /\ x.named /\ x.addressed

\* the mutation that shows every entry with details on the map
AnyDetail(x) == IsValidSpotDetail(x)

\* isValidSpotForMap
IsValidSpotForMap(x) == IsValidSpotDetail(x) /\ x.finite

\* [...rawSpots, ...derivedFromItems].map(normalizeSpot).filter(isValidSpotDetail),
\* then byId.set(s.id, s) for each and Array.from(byId.values())
SharedDetails(payload) ==
    LET derived == DerivedFromItems(payload.items)
        merged == payload.spots \o [i \in 1..Len(derived) |-> ItemAsSpot(derived[i])]
        valid == SelectSeqBy(merged, {x \in Range(merged) : IsValidSpotDetail(x)})
    IN MergeById(<<>>, valid)

\* setSpots(allDetails.filter(isValidSpotForMap))
SharedSpots(payload) ==
    LET all == SharedDetails(payload)
        forMap == SelectSeqBy(all, {x \in Range(all) : IsValidSpotForMap(x)})
    IN [i \in 1..Len(forMap) |-> Confirmed(forMap[i])]

\* the mutation that keeps the items whatever their spotId is
AnySpotId(x) == TRUE

\* typeof x.spotId === "string" && x.spotId.length > 0
HasSpotId(x) == x.text /\ x.spotId # 0

\* order: typeof x.order === "number" ? x.order : 0
OrderOf(x) == IF x.ordered THEN x.order ELSE 0

\* items.map(...).filter(...).sort(...).map(...)
SharedItems(payload) ==
    LET mapped == [i \in 1..Len(payload.items) |->
                      [spotId |-> payload.items[i].spotId,
                       text |-> payload.items[i].text,
                       visited |-> payload.items[i].visited,
                       order |-> OrderOf(payload.items[i])]]
        kept == SelectSeqBy(mapped, {x \in Range(mapped) : HasSpotId(x)})
        sorted == SortByOrder(kept)
    IN [i \in 1..Len(sorted) |->
          [spotId |-> sorted[i].spotId, visited |-> sorted[i].visited]]

\* the plan ids the backend hands out and a share link may carry
PlanIds == {"p1"}

\* what may stand in the plan-name field
PlanNames == {<<>>, <<" ", "x">>}

\* "My Plan (" + new Date().toLocaleDateString() + ")"
DefaultPlanName == <<"M">>

\* the name a shared plan is shown under: its own, or "Shared plan"
SharedName == <<"s">>

\* the mutation that leaves a name in the field
LeftoverName == <<"x">>

\* setPlanName("")
EmptyName == <<>>

\* no POST /plans is in flight
NoRequest == [name |-> <<>>, items |-> <<>>]

\* the bodies of POST /plans are not recorded in this session
Unrecorded == [name |-> <<"-">>, items |-> <<>>]

(***************************************************************************)
(* State.                                                                  *)
(***************************************************************************)
VARIABLES
    \* one run of orderByNearest, statement by statement
    optStart,       \* the start argument
    optInput,       \* the spotList argument
    remaining,      \* const remaining = [...spotList]
    ordered,        \* const ordered = []
    current,        \* let current = start
    rounds,         \* selection rounds completed
    optPc           \* "idle", "loop" or "done"

optVars == <<optStart, optInput, remaining, ordered, current, rounds, optPc>>

VARIABLES
    \* the browser session
    hasToken,       \* getIdToken() returns a token (present and unexpired)
    authUser,       \* authUser is set
    authPc,         \* the mount-time auth init: "pending" or "done"
    sharedPlanId,   \* NULL or the shared plan being viewed
    spots,          \* the visible spot collection
    selectedSpot,   \* NoSpot or the focused spot (a copy of it)
    planItems,      \* the plan: a sequence of [spotId, visited]
    isSaving,       \* a createSpot is in flight
    geoCache,       \* geoCacheRef.current: key -> result
    optCount,       \* placeholder ids handed out so far
    isSavingPlan,   \* a savePlan is in flight
    savedPlan,      \* NULL or the id of the plan last saved
    savedPlans,     \* the saved-plans list (plan ids, newest first)
    \* calls suspended at an await, each with what its closure captured
    creates,        \* handleSubmit invocations
    deletes,        \* removeSpot invocations
    loads,          \* GET requests of the loaders
    reorders,       \* autoOrderPlan invocations
    planName,       \* the plan-name field
    sentPlan,       \* the body of the POST /plans in flight, or NoRequest
    details,        \* sharedSpotDetailsById: the details of a shared plan's spots
    \* the backend
    srvSpots,       \* the spot records it holds
    nextId,         \* the id it gives the next created spot
    srvPlan,        \* the snapshot behind the share link, where the session fixes it
    \* what the last handler reported to its caller
    lastEvent

storeVars ==
    <<hasToken, authUser, authPc, sharedPlanId, spots, selectedSpot, planItems,
      isSaving, geoCache, optCount, isSavingPlan, savedPlan, savedPlans,
      creates, deletes, loads, reorders, planName, sentPlan, details, srvSpots,
      nextId, srvPlan, lastEvent>>

\* what only the handlers of a shared plan write
shareVars == <<details, srvPlan>>

vars == <<optVars, storeVars>>


(***************************************************************************)
(* orderByNearest as a state machine.                                      *)
(***************************************************************************)
PointOf(p) == [lat |-> p[1], lng |-> p[2]]

\* a list of spots with distinct ids at the given points
SpotListOf(f) ==
    [i \in DOMAIN f |-> [id |-> i, lat |-> f[i][1], lng |-> f[i][2]]]

OptIdle ==
    /\ optStart = NULL
    /\ optInput = <<>>
    /\ remaining = <<>>
    /\ ordered = <<>>
    /\ current = NULL
    /\ rounds = 0
    /\ optPc = "idle"

\* orderByNearest(start, spotList) is entered
OptCall ==
    /\ optStart \in {PointOf(p) : p \in Points}
    /\ optInput \in {SpotListOf(f) : f \in SeqsUpTo(Points, MaxSpots)}
    /\ remaining = optInput
    /\ ordered = <<>>
    /\ current = optStart
    /\ rounds = 0
    /\ optPc = "loop"

\* one pass of the while body
OptRound ==
    /\ optPc = "loop"
    /\ Len(remaining) > 0
    /\ LET bestIdx == BestIdx(current, remaining)
           next == remaining[bestIdx]
       IN /\ remaining' = Splice(remaining, bestIdx)
          /\ ordered' = Append(ordered, next)
          /\ current' = next
    /\ rounds' = rounds + 1
    /\ UNCHANGED <<optStart, optInput, optPc>>
    /\ UNCHANGED storeVars

\* while (remaining.length) fails: return ordered
OptReturn ==
    /\ optPc = "loop"
    /\ Len(remaining) = 0
    /\ optPc' = "done"
    /\ UNCHANGED <<optStart, optInput, remaining, ordered, current, rounds>>
    /\ UNCHANGED storeVars


(***************************************************************************)
(* OptimisticStore: the handlers of App.jsx, one action per handler or per *)
(* continuation after an await.                                            *)
(***************************************************************************)
\* the mutation that takes no session for a public view
NeverPublic == FALSE

\* const isPublicView = !!sharedPlanId
isPublicView == sharedPlanId # NULL

\* the record of the request body after a POST /plans is sent or answered:
\* kept only in the sessions that start with sentPlan = NoRequest
Recorded(body) == IF sentPlan = Unrecorded THEN Unrecorded ELSE body

\* the outcomes the properties below speak about
Reported == {"Created", "GeocodeFailed", "PersistFailed", "Busy", "Reordered", "EmptyPlan"}

\* before any handler has reported: in a session that keeps the outcomes
\* listed above only, and in one that keeps every outcome (detail)
NoEvent == [op |-> "-", outcome |-> "-", detail |-> FALSE]
Mounted == [op |-> "mount", outcome |-> "Mounted", detail |-> TRUE]

\* what the last handler reported: the operation and its outcome
Ev(op, outcome) ==
    IF lastEvent.detail \/ outcome \in Reported
    THEN [op |-> op, outcome |-> outcome, detail |-> lastEvent.detail]
    ELSE NoEvent

\* the state a createSpot starts from, kept to compare with the state it leaves
Pre == [spots |-> spots, planItems |-> planItems, selectedSpot |-> selectedSpot]

\* no snapshot: the call was disturbed, its start state is no longer compared
NoPre == [spots |-> <<>>, planItems |-> <<>>, selectedSpot |-> NoSpot]

\* another handler ran while these createSpot calls were suspended
Disturbed(calls) == {[c EXCEPT !.quiet = FALSE, !.pre = NoPre] : c \in calls}

\* removeSpot has removed the placeholder of one of these createSpot calls
\* from the local collection (noted in the sessions that keep every outcome)
Dropped(calls, id) ==
    {IF c.optimisticId = id /\ lastEvent.detail
     THEN [c EXCEPT !.dropped = TRUE] ELSE c : c \in calls}

\* the mutation that drops the double-submit guard
NeverBusy == FALSE

\* if (isSaving) return;
CreateInFlight == isSaving

SpotsLoad == [kind |-> "spots", ids |-> {}]
SharedLoad == [kind |-> "shared", ids |-> {}]
DetailsLoad(ids) == [kind |-> "details", ids |-> ids]

\* a handler that returns at a guard: nothing changes but what it reports
Reject(op, outcome) ==
    /\ lastEvent' = Ev(op, outcome)
    /\ UNCHANGED <<hasToken, authUser, authPc, sharedPlanId, spots, selectedSpot,
                   planItems, isSaving, geoCache, optCount, isSavingPlan, savedPlan,
                   savedPlans, creates, deletes, loads, srvSpots, nextId>>

\* the state after the first render and its mount effects, over a backend
\* that holds these records, opened at a share link (planId) or not (NULL)
StoreInitOver(records, planId, event, snapshot) ==
    /\ hasToken \in BOOLEAN
    /\ authUser = FALSE
    /\ authPc = "pending"
    \* the mount effect: setSharedPlanId(getPlanIdFromUrl())
    /\ sharedPlanId = planId
    /\ spots = <<>>
    /\ selectedSpot = NoSpot
    /\ planItems = <<>>
    /\ isSaving = FALSE
    /\ geoCache = <<>>
    /\ optCount = 0
    /\ isSavingPlan = FALSE
    /\ savedPlan = NULL
    /\ savedPlans = <<>>
    /\ creates = {}
    /\ deletes = {}
    \* the mount effects: loadSpotsPrivate() when a token is stored (the
    \* first render is never the public view), loadSharedPlan(planId)
    /\ loads = (IF hasToken THEN {SpotsLoad} ELSE {})
                  \cup (IF planId # NULL THEN {SharedLoad} ELSE {})
    /\ reorders = {}
    /\ planName = <<>>
    /\ sentPlan \in {NoRequest, Unrecorded}
    /\ details = <<>>
    /\ srvPlan = snapshot
    /\ srvSpots = records
    /\ nextId = Cardinality(records) + 1
    /\ lastEvent = event

StoreInitAt(records, planId, event) ==
    StoreInitOver(records, planId, event, NoSnapshot)

StoreInitWith(records, planId) == StoreInitAt(records, planId, NoEvent)

\* the backend of the sessions below: InitSpots records at one place
InitRecords == {[id |-> i, lat |-> 0, lng |-> 60] : i \in 1..InitSpots}

StoreInit == StoreInitWith(InitRecords, NULL) /\ sentPlan = Unrecorded

(* ---------------- createSpot: handleSubmit ---------------- *)

\* the mutation that appends the placeholder
Appended(spot, list) == list \o <<spot>>

\* setSpots((prev) => [optimisticSpot, ...prev])
Prepended(spot, list) == <<spot>> \o list

\* the mutation that tests the fields as typed
BlankAsTyped(text) == text = <<>>

\* const name = spotName.trim(); ... if (!name || !url || !addr)
IsBlank(text) == Trim(text) = <<>>

\* handleSubmit up to its first network await
Submit(name, url, address) ==
    /\ UNCHANGED <<optVars, reorders, planName, sentPlan, shareVars>>
    /\ IF isPublicView THEN Reject("createSpot", "PublicView")
       ELSE IF CreateInFlight THEN Reject("createSpot", "Busy")
       ELSE IF ~hasToken THEN Reject("createSpot", "NotAuthenticated")
       ELSE IF IsBlank(name) \/ IsBlank(url) \/ IsBlank(address)
       THEN Reject("createSpot", "ValidationError")
       ELSE
        /\ optCount < MaxCreates
        /\ LET addr == Trim(address)
               optimisticId == OptimisticId(optCount + 1)
               optimisticSpot == OptimisticSpot(optimisticId)
               key == GeoKey(addr)
               hit == key \in DOMAIN geoCache
               location == IF hit THEN geoCache[key] ELSE NoLocation
               \* remote: geocodeAddress has sent a POST /geocode
               call == [optimisticId |-> optimisticId, addr |-> addr,
                        remote |-> ~hit,
                        pc |-> IF hit THEN "persist" ELSE "geocode",
                        location |-> location, created |-> NoSpot,
                        pre |-> Pre, quiet |-> TRUE, dropped |-> FALSE]
           IN /\ isSaving' = TRUE
              /\ optCount' = optCount + 1
              /\ spots' = IF hit
                          THEN MoveSpot(Prepended(optimisticSpot, spots),
                                        optimisticId, location)
                          ELSE Prepended(optimisticSpot, spots)
              /\ selectedSpot' =
                    IF hit
                    THEN [optimisticSpot EXCEPT !.lat = location.lat, !.lng = location.lng]
                    ELSE optimisticSpot
              /\ creates' = Disturbed(creates) \cup {call}
              /\ lastEvent' = Ev("createSpot", "Started")
        /\ UNCHANGED <<hasToken, authUser, authPc, sharedPlanId, planItems, geoCache,
                       isSavingPlan, savedPlan, savedPlans, deletes, loads, srvSpots,
                       nextId>>

\* the mutation that leaves the flag set when the call ends
StillSaving == TRUE

\* finally { setIsSaving(false); }
Released == FALSE

\* the catch / not-found branch: the placeholder goes, the selection is cleared
CreateFailed(c, list, outcome) ==
    /\ spots' = Rollback(list, c.optimisticId)
    /\ selectedSpot' = NoSpot
    /\ isSaving' = Released
    /\ creates' = Disturbed(creates \ {c})
    /\ lastEvent' = Ev("createSpot", outcome)

\* POST /geocode has answered ("ok": the backend has resolved the address),
\* or has failed ("error": a non-success response or a transport error)
GeocodeDone(c, outcome) ==
    /\ c \in creates
    /\ c.pc = "geocode"
    /\ outcome = "ok" => GeocoderAnswer(c.addr) # NoLocation
    /\ UNCHANGED <<optVars, reorders, planName, sentPlan, shareVars>>
    /\ UNCHANGED <<hasToken, authUser, authPc, sharedPlanId, planItems, optCount,
                   isSavingPlan, savedPlan, savedPlans, deletes, loads, srvSpots,
                   nextId>>
    /\ LET location == IF outcome = "ok" THEN GeocoderAnswer(c.addr) ELSE NoLocation
           moved == MoveSpot(spots, c.optimisticId, location)
           call == [c EXCEPT !.pc = "persist", !.location = location]
       IN /\ geoCache' = CacheAfter(geoCache, GeoKey(c.addr), location)
          \* if (!location)
          /\ IF location = NoLocation
             THEN CreateFailed(c, spots, "GeocodeFailed")
             ELSE IF hasToken
             THEN /\ spots' = moved
                  /\ selectedSpot' =
                       IF selectedSpot.id = c.optimisticId
                       THEN [selectedSpot EXCEPT !.lat = location.lat,
                                                 !.lng = location.lng]
                       ELSE selectedSpot
                  /\ creates' = Disturbed(creates \ {c}) \cup {call}
                  /\ lastEvent' = Ev("createSpot", "Geocoded")
                  /\ UNCHANGED isSaving
             \* apiFetchAuthed throws NO_AUTH before POST /spots is sent
             ELSE CreateFailed(c, moved, "PersistFailed")

\* the mutation that posts the coordinates of the placeholder as inserted
PlaceholderPayload(c) == defaultCenter

\* const payload = {..., lat: location.lat, lng: location.lng}
SpotPayload(c) == [lat |-> c.location.lat, lng |-> c.location.lng]

\* the backend handles POST /spots: it stores the record under a new id
PersistCommit(c) ==
    /\ c \in creates
    /\ c.pc = "persist"
    /\ LET payload == SpotPayload(c)
           record == [id |-> nextId, lat |-> payload.lat, lng |-> payload.lng]
       IN /\ srvSpots' = srvSpots \cup {record}
          /\ creates' = (creates \ {c})
                \cup {[c EXCEPT !.pc = "committed", !.created = Confirmed(record)]}
    /\ nextId' = nextId + 1
    /\ UNCHANGED <<optVars, reorders, planName, sentPlan, shareVars>>
    /\ UNCHANGED <<hasToken, authUser, authPc, sharedPlanId, spots, selectedSpot,
                   planItems, isSaving, geoCache, optCount, isSavingPlan, savedPlan,
                   savedPlans, deletes, loads, lastEvent>>

\* the mutation that selects the created record whatever is selected
AlwaysFollows(selected, optimisticId, created) == created

\* setSelectedSpot((prev) => (prev && prev.id === optimisticId ? created : prev))
SelectionFollows(selected, optimisticId, created) ==
    IF selected.id = optimisticId THEN created ELSE selected

\* the response to POST /spots arrives ("ok"), or a failure does: the
\* backend refused, or the response was lost after the record was stored
PersistDone(c, outcome, enc) ==
    /\ c \in creates
    /\ UNCHANGED <<optVars, reorders, planName, sentPlan, shareVars>>
    /\ UNCHANGED <<hasToken, authUser, authPc, sharedPlanId, planItems, geoCache,
                   optCount, isSavingPlan, savedPlan, savedPlans, deletes, loads,
                   srvSpots, nextId>>
    /\ IF outcome = "ok"
       THEN /\ c.pc = "committed"
            /\ LET created == AsReturned(c.created, enc)
               IN /\ spots' = ReplaceSpot(spots, c.optimisticId, created)
                  /\ selectedSpot' =
                       SelectionFollows(selectedSpot, c.optimisticId, created)
            /\ isSaving' = Released
            /\ creates' = Disturbed(creates \ {c})
            /\ lastEvent' = Ev("createSpot", "Created")
       ELSE /\ c.pc \in {"persist", "committed"}
            /\ CreateFailed(c, spots, "PersistFailed")

(* ---------------- deleteSpot: removeSpot ---------------- *)

\* the mutation that sends the DELETE request for a placeholder too
NeverOptimistic(spot) == FALSE

\* if (spot._optimistic)
IsOptimistic(spot) == spot.optimistic

\* the mutation that takes every response for a success
AnyResponse(outcome) == TRUE

\* res.ok, and no transport error
ResponseOk(outcome) == outcome = "ok"

\* removeSpot up to its network await; a placeholder is removed on the spot
RemoveSpot(spot) ==
    /\ spot \in Range(spots)
    /\ UNCHANGED <<optVars, reorders, planName, sentPlan, shareVars>>
    /\ IF isPublicView THEN Reject("deleteSpot", "PublicView")
       ELSE IF ~hasToken THEN Reject("deleteSpot", "NotAuthenticated")
       ELSE IF IsOptimistic(spot)
       THEN /\ spots' = WithoutId(spots, spot.id)
            /\ planItems' = WithoutSpotId(planItems, spot.id)
            /\ selectedSpot' =
                 FollowEffect(planItems', spots',
                    IF selectedSpot.id = spot.id THEN NoSpot ELSE selectedSpot)
            /\ creates' = Disturbed(Dropped(creates, spot.id))
            /\ lastEvent' = Ev("deleteSpot", "RemovedLocally")
            /\ UNCHANGED <<hasToken, authUser, authPc, sharedPlanId, isSaving,
                           geoCache, optCount, isSavingPlan, savedPlan, savedPlans,
                           deletes, loads, srvSpots, nextId>>
       ELSE /\ Cardinality(deletes) < MaxDeletes
            \* selAtCall: selectedSpot && selectedSpot.id === spot.id, on the
            \* selectedSpot of the render the handler closed over
            /\ deletes' = deletes \cup {[id |-> spot.id,
                                         selAtCall |-> selectedSpot.id = spot.id]}
            /\ lastEvent' = Ev("deleteSpot", "Started")
            /\ UNCHANGED <<hasToken, authUser, authPc, sharedPlanId, spots,
                           selectedSpot, planItems, isSaving, geoCache, optCount,
                           isSavingPlan, savedPlan, savedPlans, creates, loads,
                           srvSpots, nextId>>

\* DELETE /spots/{id} has answered: "ok" (the backend has removed the
\* record), or "fail" (a non-success status or a transport error: nothing
\* is removed)
DeleteDone(d, outcome) ==
    /\ d \in deletes
    /\ UNCHANGED <<optVars, reorders, planName, sentPlan, shareVars>>
    /\ deletes' = deletes \ {d}
    /\ UNCHANGED <<hasToken, authUser, authPc, sharedPlanId, isSaving, geoCache,
                   optCount, isSavingPlan, savedPlan, savedPlans, loads, nextId>>
    /\ IF outcome = "ok"
       THEN /\ \E r \in srvSpots : r.id = d.id
            /\ srvSpots' = {r \in srvSpots : r.id # d.id}
       ELSE UNCHANGED srvSpots
    /\ IF ResponseOk(outcome)
       THEN /\ spots' = WithoutId(spots, d.id)
            /\ planItems' = WithoutSpotId(planItems, d.id)
            \* selectedSpot here is the value the closure captured at the call
            /\ selectedSpot' =
                 FollowEffect(planItems', spots',
                    IF d.selAtCall THEN NoSpot ELSE selectedSpot)
            /\ creates' = Disturbed(creates)
            /\ lastEvent' = Ev("deleteSpot", "Deleted")
       ELSE /\ lastEvent' = Ev("deleteSpot", "PersistFailed")
            /\ UNCHANGED <<spots, planItems, selectedSpot, creates>>

(* ---------------- selection and plan ---------------- *)

\* a marker or a card is clicked: setSelectedSpot(spot) / focusSpot(spot)
SelectSpot(spot) ==
    /\ spot \in Range(spots)
    /\ selectedSpot # spot
    /\ selectedSpot' = spot
    /\ creates' = Disturbed(creates)
    /\ lastEvent' = Ev("select", "Selected")
    /\ UNCHANGED <<optVars, reorders, planName, sentPlan, shareVars>>
    /\ UNCHANGED <<hasToken, authUser, authPc, sharedPlanId, spots, planItems,
                   isSaving, geoCache, optCount, isSavingPlan, savedPlan, savedPlans,
                   deletes, loads, srvSpots, nextId>>

\* the info window is closed: setSelectedSpot(null)
CloseInfoWindow ==
    /\ selectedSpot # NoSpot
    /\ selectedSpot' = NoSpot
    /\ creates' = Disturbed(creates)
    /\ lastEvent' = Ev("select", "Cleared")
    /\ UNCHANGED <<optVars, reorders, planName, sentPlan, shareVars>>
    /\ UNCHANGED <<hasToken, authUser, authPc, sharedPlanId, spots, planItems,
                   isSaving, geoCache, optCount, isSavingPlan, savedPlan, savedPlans,
                   deletes, loads, srvSpots, nextId>>

\* a change of planItems and of the selection, and nothing else
PlanChange(op, outcome, plan, sel) ==
    /\ planItems' = plan
    /\ selectedSpot' = sel
    /\ creates' = Disturbed(creates)
    /\ lastEvent' = Ev(op, outcome)
    /\ UNCHANGED <<optVars, reorders, planName, sentPlan, shareVars>>
    /\ UNCHANGED <<hasToken, authUser, authPc, sharedPlanId, spots, isSaving,
                   geoCache, optCount, isSavingPlan, savedPlan, savedPlans, deletes,
                   loads, srvSpots, nextId>>

\* addToPlan(spot), on a plan of fewer than cap items
addToPlan(spot, cap) ==
    /\ spot \in Range(spots)
    /\ IF isPublicView
       THEN UNCHANGED <<optVars, reorders, planName, sentPlan, shareVars>> /\ Reject("addToPlan", "PublicView")
       ELSE IF \E i \in 1..Len(planItems) : planItems[i].spotId = spot.id
       \* return prev: the same array, so no effect runs
       THEN UNCHANGED <<optVars, reorders, planName, sentPlan, shareVars>> /\ Reject("addToPlan", "AlreadyInPlan")
       ELSE LET plan == Append(planItems, [spotId |-> spot.id, visited |-> FALSE])
            IN /\ Len(planItems) < cap
               /\ PlanChange("addToPlan", "Added", plan,
                             FollowEffect(plan, spots, selectedSpot))

\* the mutation that marks the item visited instead of flipping its flag
MarkedVisited(plan, spotId) ==
    [i \in 1..Len(plan) |->
        IF plan[i].spotId = spotId THEN [plan[i] EXCEPT !.visited = TRUE]
        ELSE plan[i]]

\* prev.map((x) => (x.spotId === spotId ? {...x, visited: !x.visited} : x))
Toggled(plan, spotId) ==
    [i \in 1..Len(plan) |->
        IF plan[i].spotId = spotId THEN [plan[i] EXCEPT !.visited = ~plan[i].visited]
        ELSE plan[i]]

\* toggleVisited(spotId): map returns a new array whether or not an item
\* matches, so the follow-mode effect runs in both cases
toggleVisited(spotId) ==
    /\ PlanChange("toggleVisited", "Toggled", Toggled(planItems, spotId),
                  FollowEffect(Toggled(planItems, spotId), spots, selectedSpot))

\* the mutation that leaves the selection on the removed spot
KeepsFocus(sel, spotId) == sel

\* if (selectedSpot && selectedSpot.id === spotId) setSelectedSpot(null)
Unfocused(sel, spotId) == IF sel.id = spotId THEN NoSpot ELSE sel

\* removeFromPlan(spotId): filter returns a new array in every case
removeFromPlan(spotId) ==
    /\ PlanChange("removeFromPlan", "Removed", WithoutSpotId(planItems, spotId),
                  FollowEffect(WithoutSpotId(planItems, spotId), spots,
                               Unfocused(selectedSpot, spotId)))

\* the Clear plan button outside the public view (disabled on an empty plan)
ClearPlan ==
    /\ ~isPublicView
    /\ planItems # <<>>
    /\ planItems' = <<>>
    /\ selectedSpot' = NoSpot
    /\ savedPlan' = NULL
    /\ creates' = Disturbed(creates)
    /\ planName' = EmptyName
    /\ details' = <<>>
    /\ lastEvent' = Ev("clearPlan", "Cleared")
    /\ UNCHANGED <<optVars, reorders, sentPlan, srvPlan>>
    /\ UNCHANGED <<hasToken, authUser, authPc, sharedPlanId, spots, isSaving,
                   geoCache, optCount, isSavingPlan, savedPlans, deletes, loads,
                   srvSpots, nextId>>

(* ---------------- optimizePlan: autoOrderPlan ---------------- *)

\* the position of the device, where getCurrentPosition() obtains one
DevicePosition == [lat |-> 60, lng |-> 60]

\* what the page finds when the handler runs: no navigator.geolocation, or
\* the permission of the page to use it (not yet asked for, granted, denied)
Geolocations == {"none", "prompt", "granted", "denied"}

\* how getCurrentPosition() calls back: its success callback, or its error
\* callback (permission denied, position unavailable, or the timeout of
\* 6000 ms, which runs from the moment the permission is granted)
GeoOutcomes == {"position", "denied", "unavailable", "timeout"}

\* the callbacks a request may receive in each state of the permission:
\* none while the permission prompt is unanswered
Callbacks(pc) ==
    CASE pc = "granted" -> {"position", "unavailable", "timeout"}
      [] pc = "denied" -> {"denied"}
      [] OTHER -> {}

\* getStart(): (pos) => resolve({ lat: pos.coords.latitude, lng: ... }),
\* () => resolve(defaultCenter)
getStart(outcome) ==
    IF outcome = "position" THEN DevicePosition ELSE defaultCenter

\* what getStart() may resolve to: defaultCenter (no geolocation, or it
\* fails), or the position of the user
Starts == {getStart(outcome) : outcome \in GeoOutcomes}

\* planItems.map((x) => getSpotById(x.spotId)).filter(Boolean)
ResolvedSpots(plan, list) ==
    LET found == [i \in 1..Len(plan) |-> getSpotById(list, plan[i].spotId)]
    IN SelectSeqBy(found, Range(found) \ {NoSpot})

\* prev.find((x) => x.spotId === id)
FindItem(prev, id) ==
    IF \E i \in 1..Len(prev) : prev[i].spotId = id
    THEN prev[CHOOSE i \in 1..Len(prev) :
                /\ prev[i].spotId = id
                /\ \A j \in 1..(i - 1) : prev[j].spotId # id]
    ELSE NoItem

\* plan.map((x) => x.spotId)
SpotIds(plan) == [i \in 1..Len(plan) |-> plan[i].spotId]

\* the mutation that rebuilds every item as unvisited
ReorderedUnvisited(orderedSpots, prev) ==
    [i \in 1..Len(orderedSpots) |->
        [spotId |-> orderedSpots[i].id, visited |-> FALSE]]

\* orderedSpots.map((s) => { const found = prev.find(...);
\*   return { spotId: s.id, visited: found ? found.visited : false }; })
Reordered(orderedSpots, prev) ==
    [i \in 1..Len(orderedSpots) |->
        LET found == FindItem(prev, orderedSpots[i].id)
        IN [spotId |-> orderedSpots[i].id,
            visited |-> IF found = NoItem THEN FALSE ELSE found.visited]]

\* the code of autoOrderPlan after its await: the plan is rewritten in the
\* order computed from start over list
Rewritten(list, start) ==
    /\ planItems' = Reordered(orderByNearest(start, list), planItems)
    /\ selectedSpot' = FollowEffect(planItems', spots, selectedSpot)
    /\ creates' = Disturbed(creates)
    \* "Reordered" when the order of the spotIds has changed
    /\ lastEvent' = Ev("optimizePlan",
                       IF SpotIds(planItems') # SpotIds(planItems)
                       THEN "Reordered" ELSE "OrderKept")

\* the Optimize button (disabled below two items): autoOrderPlan up to its
\* await of getStart(); list is what the code after the await derives from
\* the planItems and spots of the render the handler closed over. Without
\* navigator.geolocation getStart() is resolved at once and the code after
\* the await runs before any other handler.
AutoOrderPlan(geo) ==
    /\ Len(planItems) >= 2
    /\ Cardinality(reorders) < MaxReorders
    /\ IF geo = "none"
       THEN /\ Rewritten(ResolvedSpots(planItems, spots), defaultCenter)
            /\ UNCHANGED reorders
       ELSE /\ reorders' = reorders \cup
                    {[list |-> ResolvedSpots(planItems, spots), pc |-> geo]}
            /\ UNCHANGED <<selectedSpot, planItems, creates, lastEvent>>
    /\ UNCHANGED <<optVars, planName, sentPlan, shareVars>>
    /\ UNCHANGED <<hasToken, authUser, authPc, sharedPlanId, spots, isSaving,
                   geoCache, optCount, isSavingPlan, savedPlan, savedPlans,
                   deletes, loads, srvSpots, nextId>>

\* the user answers the permission prompt that getCurrentPosition() opened
PermissionAnswered(r, answer) ==
    /\ r \in reorders
    /\ r.pc = "prompt"
    /\ reorders' = (reorders \ {r}) \cup {[r EXCEPT !.pc = answer]}
    /\ UNCHANGED <<optVars, planName, sentPlan, shareVars>>
    /\ UNCHANGED <<hasToken, authUser, authPc, sharedPlanId, spots, selectedSpot,
                   planItems, isSaving, geoCache, optCount, isSavingPlan, savedPlan,
                   savedPlans, creates, deletes, loads, srvSpots, nextId, lastEvent>>

\* a callback of getCurrentPosition() has resolved getStart(): the plan is
\* rewritten in the computed order
ReorderDone(r, outcome) ==
    /\ r \in reorders
    /\ outcome \in Callbacks(r.pc)
    /\ reorders' = reorders \ {r}
    /\ Rewritten(r.list, getStart(outcome))
    /\ UNCHANGED <<optVars, planName, sentPlan, shareVars>>
    /\ UNCHANGED <<hasToken, authUser, authPc, sharedPlanId, spots, isSaving,
                   geoCache, optCount, isSavingPlan, savedPlan, savedPlans, deletes,
                   loads, srvSpots, nextId>>

(* ---------------- savePlan ---------------- *)

\* the mutation that drops the empty-plan guard
NeverEmpty(plan) == FALSE

\* if (!planItems.length)
IsEmptyPlan(plan) == Len(plan) = 0

\* the mutation that numbers the entries from the end: order: length - idx
SnapshotReversed(plan, list) ==
    [i \in 1..Len(plan) |->
        LET spot == getSpotById(list, plan[i].spotId)
            finite == spot # NoSpot /\ spot.numeric
        IN [spotId |-> plan[i].spotId, visited |-> plan[i].visited,
            order |-> Len(plan) - i + 1,
            named |-> spot # NoSpot, finite |-> finite,
            lat |-> IF finite THEN spot.lat ELSE 0,
            lng |-> IF finite THEN spot.lng ELSE 0]]

\* the mutation that numbers every entry 0
SnapshotUnnumbered(plan, list) ==
    [i \in 1..Len(plan) |->
        LET spot == getSpotById(list, plan[i].spotId)
            finite == spot # NoSpot /\ spot.numeric
        IN [spotId |-> plan[i].spotId, visited |-> plan[i].visited, order |-> 0,
            named |-> spot # NoSpot, finite |-> finite,
            lat |-> IF finite THEN spot.lat ELSE 0,
            lng |-> IF finite THEN spot.lng ELSE 0]]

\* planItems.map((x, idx) => { const spot = getSpotById(x.spotId) || ... || {};
\*   return { spotId, visited: !!x.visited, order: idx, spotName, address,
\*            videoUrl, lat, lng }; })
\* named: spotName and address are not ""; finite: lat and lng are not null
\* (the spot details kept from a shared plan are empty outside the public view)
SnapshotItems(plan, list) ==
    [i \in 1..Len(plan) |->
        LET spot == getSpotById(list, plan[i].spotId)
            finite == spot # NoSpot /\ spot.numeric
        IN [spotId |-> plan[i].spotId, visited |-> plan[i].visited,
            order |-> i - 1,
            named |-> spot # NoSpot, finite |-> finite,
            lat |-> IF finite THEN spot.lat ELSE 0,
            lng |-> IF finite THEN spot.lng ELSE 0]]

\* the body of POST /plans as GET /plans/{id} hands it back: JSON keeps a
\* string spotId a string and the index a number; lat and lng are numbers
\* where they were finite and null otherwise
AsStored(body) ==
    [spots |-> <<>>,
     items |-> [i \in 1..Len(body.items) |->
                  LET x == body.items[i]
                  IN [WireItem(x.spotId, TRUE, x.visited, x.order, TRUE)
                        EXCEPT !.named = x.named, !.addressed = x.named,
                               !.finite = x.finite, !.lat = x.lat, !.lng = x.lng]]]

\* const name = planName.trim() || "My Plan (" + date + ")"
SnapshotName(name) == IF Trim(name) = <<>> THEN DefaultPlanName ELSE Trim(name)

\* the plan-name field is edited: setPlanName(e.target.value)
SetPlanName(name) ==
    /\ name # planName
    /\ planName' = name
    /\ UNCHANGED <<optVars, reorders, sentPlan, shareVars>>
    /\ UNCHANGED <<hasToken, authUser, authPc, sharedPlanId, spots, selectedSpot,
                   planItems, isSaving, geoCache, optCount, isSavingPlan, savedPlan,
                   savedPlans, creates, deletes, loads, srvSpots, nextId, lastEvent>>

\* savePlan up to its network await (its button is disabled while saving)
SavePlan ==
    /\ ~isSavingPlan
    /\ UNCHANGED <<optVars, reorders, planName, shareVars>>
    /\ IF isPublicView THEN Reject("savePlan", "PublicView") /\ UNCHANGED sentPlan
       ELSE IF ~hasToken
       THEN Reject("savePlan", "NotAuthenticated") /\ UNCHANGED sentPlan
       ELSE IF IsEmptyPlan(planItems)
       THEN Reject("savePlan", "EmptyPlan") /\ UNCHANGED sentPlan
       ELSE /\ isSavingPlan' = TRUE
            /\ sentPlan' = Recorded([name |-> SnapshotName(planName),
                                     items |-> SnapshotItems(planItems, spots)])
            /\ lastEvent' = Ev("savePlan", "Started")
            /\ UNCHANGED <<hasToken, authUser, authPc, sharedPlanId, spots,
                           selectedSpot, planItems, isSaving, geoCache, optCount,
                           savedPlan, savedPlans, creates, deletes, loads, srvSpots,
                           nextId>>

\* the mutation that records a plan whatever the response is
AnyPlanId(planId) == TRUE

\* res.ok, and no transport error: the response carries a plan id
PlanCreated(planId) == planId # NULL

\* POST /plans has answered with a plan id, or failed (planId = NULL)
SavePlanDone(planId) ==
    /\ isSavingPlan
    /\ isSavingPlan' = FALSE
    /\ sentPlan' = Recorded(NoRequest)
    /\ IF PlanCreated(planId)
       THEN /\ savedPlan' = planId
            /\ savedPlans' =
                 <<planId>> \o SelectSeqBy(savedPlans, Range(savedPlans) \ {planId})
            /\ lastEvent' = Ev("savePlan", "Saved")
       ELSE /\ lastEvent' = Ev("savePlan", "PersistFailed")
            /\ UNCHANGED <<savedPlan, savedPlans>>
    /\ UNCHANGED <<optVars, reorders, planName, shareVars>>
    /\ UNCHANGED <<hasToken, authUser, authPc, sharedPlanId, spots, selectedSpot,
                   planItems, isSaving, geoCache, optCount, creates, deletes, loads,
                   srvSpots, nextId>>

(* ---------------- loaders ---------------- *)

\* the mount-time auth init ends: the user is loaded ("user"), or it throws
\* and the tokens are cleared ("error")
\* (the refresh of the saved-plans list from GET /plans that the arrival of
\* the user also starts is outside this model: savedPlans holds the plans
\* saved in this session)
AuthDone(outcome) ==
    /\ authPc = "pending"
    /\ authPc' = "done"
    /\ IF outcome = "user"
       THEN /\ hasToken
            /\ authUser' = TRUE
            \* the effect on [API_BASE, isPublicView, authUser]: loadSpotsPrivate()
            /\ loads' = IF isPublicView THEN loads ELSE loads \cup {SpotsLoad}
            /\ UNCHANGED hasToken
       ELSE /\ hasToken' = FALSE
            /\ UNCHANGED <<authUser, loads>>
    /\ Cardinality(loads') <= MaxLoads
    /\ lastEvent' = Ev("auth", outcome)
    /\ UNCHANGED <<optVars, reorders, planName, sentPlan, shareVars>>
    /\ UNCHANGED <<sharedPlanId, spots, selectedSpot, planItems, isSaving, geoCache,
                   optCount, isSavingPlan, savedPlan, savedPlans, creates, deletes,
                   srvSpots, nextId>>

\* Date.now() passes expires_at
TokenExpires ==
    /\ hasToken
    /\ hasToken' = FALSE
    /\ UNCHANGED <<optVars, reorders, planName, sentPlan, shareVars>>
    /\ UNCHANGED <<authUser, authPc, sharedPlanId, spots, selectedSpot, planItems,
                   isSaving, geoCache, optCount, isSavingPlan, savedPlan, savedPlans,
                   creates, deletes, loads, srvSpots, nextId, lastEvent>>

\* openSharedPlan(planId) from the saved-plans list; its effect: loadSharedPlan
OpenSharedPlan(planId) ==
    /\ planId \in Range(savedPlans)
    /\ planId # sharedPlanId
    /\ sharedPlanId' = planId
    /\ loads' = loads \cup {SharedLoad}
    /\ Cardinality(loads') <= MaxLoads
    /\ lastEvent' = Ev("openSharedPlan", "Opened")
    /\ UNCHANGED <<optVars, reorders, planName, sentPlan, shareVars>>
    /\ UNCHANGED <<hasToken, authUser, authPc, spots, selectedSpot, planItems,
                   isSaving, geoCache, optCount, isSavingPlan, savedPlan, savedPlans,
                   creates, deletes, srvSpots, nextId>>

\* closeSharedPlan(); its effect: loadSpotsPrivate() when a token is there
CloseSharedPlan ==
    /\ isPublicView
    /\ sharedPlanId' = NULL
    /\ savedPlan' = NULL
    /\ planItems' = <<>>
    /\ selectedSpot' = NoSpot
    /\ loads' = IF hasToken THEN loads \cup {SpotsLoad} ELSE loads
    /\ Cardinality(loads') <= MaxLoads
    /\ creates' = Disturbed(creates)
    /\ planName' = EmptyName
    \* the effect on isPublicView: setSharedSpotDetailsById({})
    /\ details' = <<>>
    /\ lastEvent' = Ev("closeSharedPlan", "Closed")
    /\ UNCHANGED <<optVars, reorders, sentPlan, srvPlan>>
    /\ UNCHANGED <<hasToken, authUser, authPc, spots, isSaving, geoCache, optCount,
                   isSavingPlan, savedPlans, deletes, srvSpots, nextId>>

\* the effect that asks for the details of plan spots the collection lacks
LoadDetailsStart ==
    /\ isPublicView
    /\ authUser
    /\ hasToken
    /\ LET missing == {planItems[i].spotId : i \in 1..Len(planItems)}
                        \ {spots[i].id : i \in 1..Len(spots)}
       IN /\ missing # {}
          /\ DetailsLoad(missing) \notin loads
          /\ loads' = loads \cup {DetailsLoad(missing)}
    /\ Cardinality(loads') <= MaxLoads
    /\ UNCHANGED <<optVars, reorders, planName, sentPlan, shareVars>>
    /\ UNCHANGED <<hasToken, authUser, authPc, sharedPlanId, spots, selectedSpot,
                   planItems, isSaving, geoCache, optCount, isSavingPlan, savedPlan,
                   savedPlans, creates, deletes, srvSpots, nextId, lastEvent>>

\* a GET fails: the loaders alert and change nothing
LoadFailed(l) ==
    /\ l \in loads
    /\ loads' = loads \ {l}
    /\ lastEvent' = Ev(l.kind, "LoadFailed")
    /\ UNCHANGED <<optVars, reorders, planName, sentPlan, shareVars>>
    /\ UNCHANGED <<hasToken, authUser, authPc, sharedPlanId, spots, selectedSpot,
                   planItems, isSaving, geoCache, optCount, isSavingPlan, savedPlan,
                   savedPlans, creates, deletes, srvSpots, nextId>>

\* GET /spots at the backend: what it holds, as the loaders keep it
ServerSpots ==
    LET list == ServerList(srvSpots)
    IN [i \in 1..Len(list) |-> Confirmed(list[i])]

\* loadSpotsPrivate after its await: setSpots(spotsArray), from a response
\* that carries the coordinates of each record as encOf says
LoadSpotsDone(l, encOf) ==
    /\ l \in loads
    /\ l.kind = "spots"
    /\ loads' = loads \ {l}
    /\ spots' = ParsedFinite(ServerList(srvSpots), encOf)
    /\ creates' = Disturbed(creates)
    /\ lastEvent' = Ev("spots", "Loaded")
    /\ UNCHANGED <<optVars, reorders, planName, sentPlan, shareVars>>
    /\ UNCHANGED <<hasToken, authUser, authPc, sharedPlanId, selectedSpot, planItems,
                   isSaving, geoCache, optCount, isSavingPlan, savedPlan, savedPlans,
                   deletes, srvSpots, nextId>>

\* loadPlanSpotDetailsFromPrivate after its await: the matched spots are
\* merged into the collection by id
LoadDetailsDone(l) ==
    /\ l \in loads
    /\ l.kind = "details"
    /\ loads' = loads \ {l}
    /\ LET matched == SelectSeqBy(ServerSpots, {x \in Range(ServerSpots) : x.id \in l.ids})
       IN spots' = IF matched = <<>> THEN spots
                   ELSE MergeById(MergeById(<<>>, spots), matched)
    /\ creates' = Disturbed(creates)
    /\ lastEvent' = Ev("details", "Loaded")
    /\ UNCHANGED <<optVars, reorders, planName, sentPlan, shareVars>>
    /\ UNCHANGED <<hasToken, authUser, authPc, sharedPlanId, selectedSpot, planItems,
                   isSaving, geoCache, optCount, isSavingPlan, savedPlan, savedPlans,
                   deletes, srvSpots, nextId>>

\* loadSharedPlan after its await: spots, plan and selection are replaced
LoadSharedDone(l, payload) ==
    /\ l \in loads
    /\ l.kind = "shared"
    /\ loads' = loads \ {l}
    /\ details' = SharedDetails(payload)
    /\ spots' = SharedSpots(payload)
    /\ planItems' = SharedItems(payload)
    /\ savedPlan' = NULL
    /\ selectedSpot' = FollowEffect(planItems', spots', NoSpot)
    /\ creates' = Disturbed(creates)
    \* setPlanName((data && data.name) || "Shared plan")
    /\ planName' = SharedName
    /\ lastEvent' = Ev("shared", "Loaded")
    /\ UNCHANGED <<optVars, reorders, sentPlan, srvPlan>>
    /\ UNCHANGED <<hasToken, authUser, authPc, sharedPlanId, isSaving, geoCache,
                   optCount, isSavingPlan, savedPlans, deletes, srvSpots, nextId>>

\* the Clear plan button in the public view: loadSharedPlan(sharedPlanId)
ReloadSharedPlan ==
    /\ isPublicView
    /\ loads' = loads \cup {SharedLoad}
    /\ Cardinality(loads') <= MaxLoads
    /\ lastEvent' = Ev("clearPlan", "Reloading")
    /\ UNCHANGED <<optVars, reorders, planName, sentPlan, shareVars>>
    /\ UNCHANGED <<hasToken, authUser, authPc, sharedPlanId, spots, selectedSpot,
                   planItems, isSaving, geoCache, optCount, isSavingPlan, savedPlan,
                   savedPlans, creates, deletes, srvSpots, nextId>>

(* ---------------- the session ---------------- *)

Init == StoreInit /\ hasToken /\ OptIdle

\* the handlers of a signed-in session on the user's own collection
PrivateNext ==
    \/ \E form \in Forms : Submit(form.name, form.url, form.address)
    \/ \E c \in creates, outcome \in {"ok", "error"} : GeocodeDone(c, outcome)
    \/ \E c \in creates : PersistCommit(c)
    \/ \E c \in creates, outcome \in {"ok", "fail"} : PersistDone(c, outcome, "number")
    \/ \E spot \in Range(spots) : RemoveSpot(spot)
    \/ \E d \in deletes, outcome \in {"ok", "fail"} : DeleteDone(d, outcome)
    \/ \E spot \in Range(spots) : SelectSpot(spot)
    \/ CloseInfoWindow
    \/ \E spot \in Range(spots) : addToPlan(spot, MaxPlan)
    \/ \E i \in 1..Len(planItems) : toggleVisited(planItems[i].spotId)
    \/ \E i \in 1..Len(planItems) : removeFromPlan(planItems[i].spotId)
    \/ ClearPlan
    \/ \E geo \in {"granted"} : AutoOrderPlan(geo)
    \/ \E r \in reorders, outcome \in GeoOutcomes : ReorderDone(r, outcome)
    \/ \E name \in PlanNames : SetPlanName(name)
    \/ SavePlan
    \/ \E planId \in PlanIds \cup {NULL} : SavePlanDone(planId)
    \/ \E outcome \in {"user", "error"} : AuthDone(outcome)
    \/ TokenExpires
    \/ \E l \in loads : LoadFailed(l)
    \/ \E l \in loads : LoadSpotsDone(l, AllNumbers(srvSpots))

\* the handlers that open, fill and leave the view of a saved plan
ViewNext ==
    \/ \E planId \in PlanIds : OpenSharedPlan(planId)
    \/ CloseSharedPlan
    \/ LoadDetailsStart
    \/ \E l \in loads : LoadDetailsDone(l)
    \/ \E l \in loads, payload \in SharedPayloads : LoadSharedDone(l, payload)

Next == PrivateNext \/ ViewNext

Spec == Init /\ [][Next]_vars

\* every handler that writes the spot collection, with the handlers that
\* lead to them; a deleteSpot or savePlan that fails writes nothing and is
\* left out
CollectionNext ==
    \/ \E form \in Forms : Submit(form.name, form.url, form.address)
    \/ \E c \in creates, outcome \in {"ok", "error"} : GeocodeDone(c, outcome)
    \/ \E c \in creates : PersistCommit(c)
    \/ \E c \in creates, outcome \in {"ok", "fail"} : PersistDone(c, outcome, "number")
    \/ \E spot \in Range(spots) : RemoveSpot(spot)
    \/ \E d \in deletes : DeleteDone(d, "ok")
    \/ \E spot \in Range(spots) : addToPlan(spot, MaxPlan)
    \/ SavePlan
    \/ \E planId \in PlanIds : SavePlanDone(planId)
    \/ \E outcome \in {"user", "error"} : AuthDone(outcome)
    \/ \E l \in loads : LoadFailed(l)
    \/ \E l \in loads : LoadSpotsDone(l, AllNumbers(srvSpots))
    \/ ViewNext

CollectionSpec == Init /\ [][CollectionNext]_vars

\* createSpot with the handlers that can run while it is suspended and write
\* the collection, the selection or the token
CreateNext ==
    \/ \E form \in Forms : Submit(form.name, form.url, form.address)
    \/ \E c \in creates, outcome \in {"ok", "error"} : GeocodeDone(c, outcome)
    \/ \E c \in creates : PersistCommit(c)
    \/ \E c \in creates, outcome \in {"ok", "fail"} : PersistDone(c, outcome, "number")
    \/ \E spot \in Range(spots) : RemoveSpot(spot)
    \/ \E d \in deletes, outcome \in {"ok", "fail"} : DeleteDone(d, outcome)
    \/ \E spot \in Range(spots) : SelectSpot(spot)
    \/ CloseInfoWindow
    \/ \E outcome \in {"user", "error"} : AuthDone(outcome)
    \/ TokenExpires
    \/ \E l \in loads : LoadFailed(l)
    \/ \E l \in loads : LoadSpotsDone(l, AllNumbers(srvSpots))

CreateSpec == Init /\ [][CreateNext]_vars

\* the same session, keeping the outcome of every handler
FormInit ==
    /\ StoreInitAt(InitRecords, NULL, Mounted)
    /\ sentPlan = Unrecorded
    /\ hasToken
    /\ OptIdle

FormSpec == FormInit /\ [][CreateNext]_vars

\* the three operations that can fail, with the handlers of the collection,
\* the plan and the selection, in a session whose token stays valid
RollbackNext ==
    \/ \E form \in Forms : Submit(form.name, form.url, form.address)
    \/ \E c \in creates, outcome \in {"ok", "error"} : GeocodeDone(c, outcome)
    \/ \E c \in creates : PersistCommit(c)
    \/ \E c \in creates, outcome \in {"ok", "fail"} : PersistDone(c, outcome, "number")
    \/ \E spot \in Range(spots) : RemoveSpot(spot)
    \/ \E d \in deletes, outcome \in {"ok", "fail"} : DeleteDone(d, outcome)
    \/ \E spot \in Range(spots) : SelectSpot(spot)
    \/ CloseInfoWindow
    \/ \E spot \in Range(spots) : addToPlan(spot, MaxPlan)
    \/ \E i \in 1..Len(planItems) : toggleVisited(planItems[i].spotId)
    \/ \E i \in 1..Len(planItems) : removeFromPlan(planItems[i].spotId)
    \/ ClearPlan
    \/ SavePlan
    \/ \E planId \in PlanIds \cup {NULL} : SavePlanDone(planId)
    \/ \E l \in loads : LoadFailed(l)
    \/ \E l \in loads : LoadSpotsDone(l, AllNumbers(srvSpots))

RollbackSpec == Init /\ [][RollbackNext]_vars

\* three spots at three places, for plans that can be reordered
PlanRecords ==
    {[id |-> 1, lat |-> 0, lng |-> 60],
     [id |-> 2, lat |-> 60, lng |-> 60],
     [id |-> 3, lat |-> -60, lng |-> 0]}

\* the snapshots of SharedPayloads, and one whose items repeat a spot
PlanPayloads ==
    SharedPayloads \cup
    {[spots |-> <<WireSpot(1, TRUE, TRUE, TRUE, 0, 60),
                  WireSpot(2, TRUE, TRUE, TRUE, 60, 60)>>,
      items |-> <<Item(1, FALSE, 0), Item(2, TRUE, 1), Item(1, TRUE, 2)>>]}

\* a signed-in session opened on the own collection or at a share link
PlanInit ==
    /\ \E planId \in PlanIds \cup {NULL} : StoreInitWith(PlanRecords, planId)
    /\ sentPlan = Unrecorded
    /\ hasToken
    /\ OptIdle

\* the handlers that write the plan, with the loads that fill the collection
PlanNext ==
    \/ \E spot \in Range(spots) : addToPlan(spot, MaxItems)
    \/ \E i \in 1..Len(planItems) : toggleVisited(planItems[i].spotId)
    \/ \E i \in 1..Len(planItems) : removeFromPlan(planItems[i].spotId)
    \/ ClearPlan
    \/ \E geo \in {"granted"} : AutoOrderPlan(geo)
    \/ \E r \in reorders, outcome \in GeoOutcomes : ReorderDone(r, outcome)
    \/ \E spot \in Range(spots) : RemoveSpot(spot)
    \/ \E d \in deletes : DeleteDone(d, "ok")
    \/ CloseSharedPlan
    \/ \E l \in loads : LoadSpotsDone(l, AllNumbers(srvSpots))
    \/ \E l \in loads, payload \in PlanPayloads : LoadSharedDone(l, payload)

PlanSpec == PlanInit /\ [][PlanNext]_vars

\* a session opened on the own collection or at a share link, over the
\* backend of InitRecords
WireInit ==
    /\ \E planId \in PlanIds \cup {NULL} : StoreInitWith(InitRecords, planId)
    /\ sentPlan = Unrecorded
    /\ hasToken
    /\ OptIdle

\* the handlers through which backend records enter the collection, the
\* responses carrying the coordinates in every encoding
WireNext ==
    \/ \E form \in Forms : Submit(form.name, form.url, form.address)
    \/ \E c \in creates, outcome \in {"ok", "error"} : GeocodeDone(c, outcome)
    \/ \E c \in creates : PersistCommit(c)
    \/ \E c \in creates, outcome \in {"ok", "fail"}, enc \in Encodings :
          PersistDone(c, outcome, enc)
    \/ \E spot \in Range(spots) : RemoveSpot(spot)
    \/ \E d \in deletes : DeleteDone(d, "ok")
    \/ CloseSharedPlan
    \/ \E l \in loads, encOf \in EncodingsOf(srvSpots) : LoadSpotsDone(l, encOf)
    \/ \E l \in loads, payload \in SharedPayloads : LoadSharedDone(l, payload)

WireSpec == WireInit /\ [][WireNext]_vars

\* a signed-in session on the own collection of three spots, in which the
\* bodies of POST /plans are recorded
SaveInit ==
    /\ StoreInitWith(PlanRecords, NULL)
    /\ sentPlan = NoRequest
    /\ hasToken
    /\ OptIdle

\* the ids a plan handler may be called with: those of the backend records
\* and one that no spot and no plan item carries
HandlerIds == {r.id : r \in PlanRecords} \cup {Cardinality(PlanRecords) + 1}

\* the handlers of the plan items and of the selection over a loaded
\* collection, in a session that keeps the outcome of every handler
ItemInit ==
    /\ StoreInitAt(PlanRecords, NULL, Mounted)
    /\ sentPlan = Unrecorded
    /\ hasToken
    /\ OptIdle

ItemNext ==
    \/ \E spot \in Range(spots) : addToPlan(spot, MaxItems)
    \/ \E spotId \in HandlerIds : toggleVisited(spotId)
    \/ \E spotId \in HandlerIds : removeFromPlan(spotId)
    \/ ClearPlan
    \/ \E spot \in Range(spots) : SelectSpot(spot)
    \/ CloseInfoWindow
    \/ \E spot \in Range(spots) : RemoveSpot(spot)
    \/ \E d \in deletes : DeleteDone(d, "ok")
    \/ \E l \in loads : LoadSpotsDone(l, AllNumbers(srvSpots))

ItemSpec == ItemInit /\ [][ItemNext]_vars

\* the items a snapshot may carry: string spotIds with a numeric order, an
\* order that is not a number, an empty spotId, a spotId that is a number
OrderItems ==
    {Item(id, visited, order) : id \in 1..2, visited \in BOOLEAN, order \in 0..2}
      \cup {WireItem(id, TRUE, FALSE, 1, FALSE) : id \in 1..2}
      \cup {WireItem(0, TRUE, FALSE, 0, TRUE), WireItem(1, FALSE, FALSE, 0, TRUE)}

\* the entries a spots list may carry: complete ones, one id at two
\* places, ones whose coordinates are not finite, ones that lack the name,
\* the address or the id
WireSpots ==
    {WireSpot(1, TRUE, TRUE, TRUE, 0, 60), WireSpot(1, TRUE, TRUE, TRUE, 60, 60),
     WireSpot(1, TRUE, TRUE, FALSE, 0, 0), WireSpot(2, TRUE, TRUE, FALSE, 0, 0),
     WireSpot(2, TRUE, TRUE, TRUE, 60, 0), WireSpot(2, FALSE, TRUE, TRUE, 60, 0),
     WireSpot(2, TRUE, FALSE, TRUE, 60, 0), WireSpot(0, TRUE, TRUE, TRUE, 60, 0)}

\* items that carry spot fields, as savePlan writes them: complete, without
\* finite coordinates, without an address, none, and with a numeric spotId
SpotItems ==
    {[Item(1, FALSE, 0) EXCEPT !.named = TRUE, !.addressed = TRUE, !.finite = TRUE,
                               !.lat = -60],
     [Item(2, TRUE, 1) EXCEPT !.named = TRUE, !.addressed = TRUE],
     [Item(2, FALSE, 1) EXCEPT !.named = TRUE, !.finite = TRUE, !.lat = -60],
     Item(2, FALSE, 0),
     [WireItem(2, FALSE, FALSE, 0, TRUE) EXCEPT !.named = TRUE, !.addressed = TRUE,
                                                !.finite = TRUE]}

\* what GET /public/plans/{id} may return: two spots with any items, and
\* any spots list with items that carry spot fields
WirePayloads ==
    {[spots |-> <<WireSpot(1, TRUE, TRUE, TRUE, 0, 60),
                  WireSpot(2, TRUE, TRUE, TRUE, 60, 60)>>,
      items |-> items] : items \in SeqsUpTo(OrderItems, MaxItems)}
      \cup {[spots |-> list, items |-> items] :
                list \in SeqsUpTo(WireSpots, MaxWire),
                items \in SeqsUpTo(SpotItems, MaxWire)}

\* an anonymous viewer at a share link, the backend returning one of the
\* snapshots above
ShareInit ==
    /\ \E snapshot \in WirePayloads :
          StoreInitOver(InitRecords, "p1", Mounted, snapshot)
    /\ sentPlan = Unrecorded
    /\ ~hasToken
    /\ OptIdle

ShareNext ==
    \/ \E l \in loads : LoadSharedDone(l, srvPlan)
    \/ \E l \in loads : LoadFailed(l)
    \/ ReloadSharedPlan
    \/ \E i \in 1..Len(planItems) : toggleVisited(planItems[i].spotId)
    \/ \E i \in 1..Len(planItems) : removeFromPlan(planItems[i].spotId)

ShareSpec == ShareInit /\ [][ShareNext]_vars

\* a signed-in viewer at a share link, in a session that keeps the outcome
\* of every handler and the bodies of POST /plans
ViewerInit ==
    /\ StoreInitAt(PlanRecords, "p1", Mounted)
    /\ sentPlan = NoRequest
    /\ hasToken
    /\ OptIdle

\* the handlers a viewer can call while the shared plan is open
ViewerNext ==
    \/ \E l \in loads, payload \in PlanPayloads : LoadSharedDone(l, payload)
    \/ \E l \in loads : LoadFailed(l)
    \/ ReloadSharedPlan
    \/ \E form \in Forms : Submit(form.name, form.url, form.address)
    \/ \E spot \in Range(spots) : RemoveSpot(spot)
    \/ \E spot \in Range(spots) : addToPlan(spot, MaxItems)
    \/ SavePlan
    \/ \E i \in 1..Len(planItems) : toggleVisited(planItems[i].spotId)
    \/ \E i \in 1..Len(planItems) : removeFromPlan(planItems[i].spotId)
    \/ \E spot \in Range(spots) : SelectSpot(spot)

ViewerSpec == ViewerInit /\ [][ViewerNext]_vars

\* createSpot with what can end it, in a session whose token may expire
BusyNext ==
    \/ \E form \in Forms : Submit(form.name, form.url, form.address)
    \/ \E c \in creates, outcome \in {"ok", "error"} : GeocodeDone(c, outcome)
    \/ \E c \in creates : PersistCommit(c)
    \/ \E c \in creates, outcome \in {"ok", "fail"} : PersistDone(c, outcome, "number")
    \/ \E spot \in Range(spots) : RemoveSpot(spot)
    \/ TokenExpires
    \/ \E l \in loads : LoadSpotsDone(l, AllNumbers(srvSpots))

BusySpec == FormInit /\ [][BusyNext]_vars

\* each backend call eventually returns or fails: POST /geocode and
\* POST /spots get their answer
BusyLiveSpec ==
    /\ BusySpec
    /\ WF_vars(\E c \in creates, outcome \in {"ok", "error"} : GeocodeDone(c, outcome))
    /\ WF_vars(\E c \in creates, outcome \in {"ok", "fail"} :
                  PersistDone(c, outcome, "number"))

\* a signed-in session on the own collection, over the backend of
\* InitRecords
FollowInit ==
    /\ StoreInitWith(InitRecords, NULL)
    /\ sentPlan = Unrecorded
    /\ hasToken
    /\ OptIdle

\* the handlers that change the plan, over a collection into which
\* createSpot brings records with coordinates in every encoding
FollowNext ==
    \/ \E form \in Forms : Submit(form.name, form.url, form.address)
    \/ \E c \in creates, outcome \in {"ok", "error"} : GeocodeDone(c, outcome)
    \/ \E c \in creates : PersistCommit(c)
    \/ \E c \in creates, outcome \in {"ok", "fail"}, enc \in Encodings :
          PersistDone(c, outcome, enc)
    \/ \E l \in loads : LoadSpotsDone(l, AllNumbers(srvSpots))
    \/ \E spot \in Range(spots) : addToPlan(spot, MaxItems)
    \/ \E i \in 1..Len(planItems) : toggleVisited(planItems[i].spotId)
    \/ \E i \in 1..Len(planItems) : removeFromPlan(planItems[i].spotId)
    \/ ClearPlan
    \/ \E geo \in {"none"} : AutoOrderPlan(geo)
    \/ CloseInfoWindow

FollowSpec == FollowInit /\ [][FollowNext]_vars

\* the plan handlers around autoOrderPlan, in a browser of every kind
GeoNext ==
    \/ \E spot \in Range(spots) : addToPlan(spot, MaxItems)
    \/ \E i \in 1..Len(planItems) : toggleVisited(planItems[i].spotId)
    \/ \E i \in 1..Len(planItems) : removeFromPlan(planItems[i].spotId)
    \/ \E geo \in Geolocations : AutoOrderPlan(geo)
    \/ \E r \in reorders, answer \in {"granted", "denied"} :
          PermissionAnswered(r, answer)
    \/ \E r \in reorders, outcome \in GeoOutcomes : ReorderDone(r, outcome)
    \/ \E l \in loads : LoadSpotsDone(l, AllNumbers(srvSpots))

GeoSpec == ItemInit /\ [][GeoNext]_vars

\* a step in which a callback of getCurrentPosition() resolves getStart():
\* among the steps of the handlers these are the steps of ReorderDone
CallsBack ==
    \E r \in reorders : Callbacks(r.pc) # {} /\ reorders' = reorders \ {r}

\* getCurrentPosition() calls one of its callbacks once the permission is
\* decided: at once when it is denied, and at the latest when the timeout
\* of 6000 ms expires. Nothing makes the user answer the permission prompt.
GeoLiveSpec == GeoSpec /\ WF_reorders(CallsBack)

\* savePlan with the handlers that write the plan, its name and the
\* collection
SaveNext ==
    \/ \E spot \in Range(spots) : addToPlan(spot, MaxItems)
    \/ \E i \in 1..Len(planItems) : toggleVisited(planItems[i].spotId)
    \/ \E i \in 1..Len(planItems) : removeFromPlan(planItems[i].spotId)
    \/ ClearPlan
    \/ \E name \in PlanNames : SetPlanName(name)
    \/ SavePlan
    \/ \E planId \in PlanIds \cup {NULL} : SavePlanDone(planId)
    \/ \E l \in loads : LoadSpotsDone(l, AllNumbers(srvSpots))

SaveSpec == SaveInit /\ [][SaveNext]_vars


(* ---------------- orderByNearest on its own ---------------- *)

\* no session: only the call of orderByNearest runs
StoreIdle == StoreInit /\ hasToken = FALSE

OptInit == OptCall /\ StoreIdle

OptNext == OptRound \/ OptReturn

OptSpec == OptInit /\ [][OptNext]_vars

\* the loop is straight-line code: it runs until it returns
OptLiveSpec == OptSpec /\ WF_vars(OptNext)

(***************************************************************************)
(* Properties of the store (checked under CreateSpec, CollectionSpec and   *)
(* RollbackSpec).                                                          *)
(***************************************************************************)
Count(s, x) == Cardinality({i \in 1..Len(s) : s[i] = x})

IsPermutation(s, t) ==
    /\ Len(s) = Len(t)
    /\ \A x \in Range(s) \cup Range(t) : Count(s, x) = Count(t, x)

Ids(s) == [i \in 1..Len(s) |-> s[i].id]

HasId(list, id) == \E i \in 1..Len(list) : list[i].id = id

\* list without the entries that carry this id, the others in their order
Others(list, id) == SelectSeqBy(list, {x \in Range(list) : x.id # id})

Reports(op, outcome) ==
    [op |-> op, outcome |-> outcome, detail |-> lastEvent.detail]

\* the step that ends the createSpot call c with this outcome
CreateEnds(c, outcome) ==
    /\ c \in creates
    /\ isSaving
    /\ ~isSaving'
    /\ lastEvent' = Reports("createSpot", outcome)

\* the step that ends the createSpot call c with a failure
CreateFails(c) == CreateEnds(c, "GeocodeFailed") \/ CreateEnds(c, "PersistFailed")

\* the steps that start a deleteSpot or a savePlan, and those that end one
\* with a failure
DeleteStarts == Cardinality(deletes') > Cardinality(deletes)
DeleteFails ==
    /\ deletes' # deletes
    /\ lastEvent' = Reports("deleteSpot", "PersistFailed")
SaveStarts == ~isSavingPlan /\ isSavingPlan'
SaveFails ==
    /\ isSavingPlan
    /\ ~isSavingPlan'
    /\ lastEvent' = Reports("savePlan", "PersistFailed")

\* C1: when a createSpot succeeds, whatever ran during the call, the
\* collection holds exactly one entry with the backend-assigned id, none
\* with the placeholder id, and that entry is not marked optimistic.
CreatedEntryIsThere ==
    [][\A c \in creates :
          CreateEnds(c, "Created") =>
             /\ Count(Ids(spots'), c.created.id) = 1
             /\ ~HasId(spots', c.optimisticId)
             /\ \A i \in 1..Len(spots') :
                   spots'[i].id = c.created.id => ~spots'[i].optimistic]_vars

\* C2: when createSpot fails at the geocode step the call never reached
\* POST /spots, the placeholder is gone and every other entry is where it
\* was; if no other handler ran during the call, the collection is exactly
\* the one before the call.
GeocodeFailureRestores ==
    [][\A c \in creates :
          CreateEnds(c, "GeocodeFailed") =>
             /\ c.pc = "geocode"
             /\ c.created = NoSpot
             /\ UNCHANGED <<srvSpots, nextId>>
             /\ ~HasId(spots', c.optimisticId)
             /\ spots' = Others(spots, c.optimisticId)
             /\ (c.quiet => spots' = c.pre.spots)]_vars

\* a geocode failure reported over a collection that holds other spots
GeocodeFailureWitness ==
    /\ lastEvent = Reports("createSpot", "GeocodeFailed")
    /\ ~isSaving
    /\ Len(spots) = InitSpots
    /\ geoCache = <<>>

\* C3: when createSpot fails at the persist step the placeholder is removed
\* and no other entry is added, removed or reordered; if no other handler
\* ran during the call, the collection is exactly the one before the call.
PersistFailureRestores ==
    [][\A c \in creates :
          CreateEnds(c, "PersistFailed") =>
             /\ ~HasId(spots', c.optimisticId)
             /\ spots' = Others(spots, c.optimisticId)
             /\ (c.quiet => spots' = c.pre.spots)]_vars

\* a persist failure, the backend having refused, reported over a
\* collection that holds other spots
PersistFailureWitness ==
    /\ lastEvent = Reports("createSpot", "PersistFailed")
    /\ ~isSaving
    /\ Len(spots) = InitSpots
    /\ geoCache # <<>>
    /\ nextId = InitSpots + 1

\* C4: in every reachable state no two entries of the collection share an
\* id, and when no createSpot is in flight no entry is marked optimistic.
CollectionConsistent ==
    /\ \A i, j \in 1..Len(spots) : spots[i].id = spots[j].id => i = j
    /\ creates = {} => \A i \in 1..Len(spots) : ~spots[i].optimistic

\* a created spot merged into the collection a shared plan load had filled
CollectionConsistentWitness ==
    /\ isPublicView
    /\ creates = {}
    /\ optCount >= 1
    /\ Len(spots) >= 2

\* C5: at most one createSpot is in flight; while one is, no step starts
\* another or inserts a placeholder, and the submit that reports Busy
\* changes nothing: no placeholder, no selection, no geocode or persist call.
OneCreateInFlight ==
    [][/\ Cardinality(creates') <= 1
       /\ isSaving =>
            /\ optCount' = optCount
            /\ \A i \in 1..Len(spots') :
                  spots'[i].optimistic => HasId(spots, spots'[i].id)
       /\ (lastEvent' = Reports("createSpot", "Busy") /\ lastEvent' # lastEvent) =>
            /\ isSaving
            /\ UNCHANGED <<spots, selectedSpot, planItems, isSaving, creates,
                           optCount, geoCache, srvSpots, nextId>>]_vars

\* a submit rejected as Busy after the backend had stored the first spot
OneCreateInFlightWitness ==
    /\ lastEvent = Reports("createSpot", "Busy")
    /\ isSaving
    /\ \E c \in creates : c.pc = "committed"

\* C6 as stated: a createSpot, deleteSpot or savePlan that fails leaves the
\* collection, the plan and the selection equal to their values before the
\* call (no other handler having run during the call).
FailureRestoresAll ==
    [][/\ \A c \in creates :
             (CreateFails(c) /\ c.quiet) =>
                /\ spots' = c.pre.spots
                /\ planItems' = c.pre.planItems
                /\ selectedSpot' = c.pre.selectedSpot
       /\ (DeleteStarts \/ DeleteFails \/ SaveStarts \/ SaveFails) =>
             UNCHANGED <<spots, planItems, selectedSpot>>]_vars

\* C6 amended: a deleteSpot or savePlan that fails leaves the collection,
\* the plan and the selection as they were; a createSpot that fails
\* restores the collection and the plan, and leaves nothing selected.
FailureRestoresButSelection ==
    [][/\ \A c \in creates :
             CreateFails(c) =>
                /\ selectedSpot' = NoSpot
                /\ planItems' = planItems
                /\ c.quiet => /\ spots' = c.pre.spots
                              /\ planItems' = c.pre.planItems
       /\ (DeleteStarts \/ DeleteFails \/ SaveStarts \/ SaveFails) =>
             UNCHANGED <<spots, planItems, selectedSpot>>]_vars

\* a createSpot has failed over a collection and a plan that are not empty
FailureRestoresWitness ==
    /\ lastEvent \in {Reports("createSpot", "GeocodeFailed"),
                      Reports("createSpot", "PersistFailed")}
    /\ planItems # <<>>
    /\ spots # <<>>
    /\ selectedSpot = NoSpot

(***************************************************************************)
(* Properties of orderByNearest (checked under OptSpec / OptLiveSpec).     *)
(***************************************************************************)

\* C7: the list orderByNearest returns is a permutation of its input: same
\* length, same multiset of spots and of spot ids, nothing dropped or
\* duplicated.
OrderIsPermutation ==
    optPc = "done" =>
        /\ IsPermutation(ordered, optInput)
        /\ IsPermutation(Ids(ordered), Ids(optInput))

\* a run that returned a full-length list in an order other than the input's
OrderIsPermutationWitness ==
    /\ optPc = "done"
    /\ Len(optInput) = MaxSpots
    /\ ordered # optInput

\* C8: for a non-empty input the first element returned is at the minimum
\* distance from start among all input spots.
FirstIsNearest ==
    (optPc = "done" /\ Len(optInput) > 0) =>
        \A i \in 1..Len(optInput) :
            haversineKm(optStart, ordered[1]) <= haversineKm(optStart, optInput[i])

\* the spec's scenario on one meridian: the farther spot listed first, the
\* nearer one returned first
FirstIsNearestWitness ==
    /\ optPc = "done"
    /\ optStart = [lat |-> -60, lng |-> 0]
    /\ optInput = <<[id |-> 1, lat |-> 60, lng |-> 0], [id |-> 2, lat |-> 0, lng |-> 0]>>
    /\ ordered = <<optInput[2], optInput[1]>>

\* C9: every selection round is greedy: the spot it moves to the output is
\* at the minimum distance from the current position (start in the first
\* round, the previous output element afterwards) among the remaining spots,
\* and of several spots at that distance the first in the remaining list is
\* taken; the others stay in their order.
GreedyEveryRound ==
    [][rounds' = rounds + 1 =>
        /\ current = (IF rounds = 0 THEN optStart ELSE ordered[Len(ordered)])
        /\ \E j \in 1..Len(remaining) :
            /\ ordered' = Append(ordered, remaining[j])
            /\ \A i \in 1..Len(remaining) :
                haversineKm(current, remaining[i]) >= haversineKm(current, remaining[j])
            /\ \A i \in 1..(j - 1) :
                haversineKm(current, remaining[i]) > haversineKm(current, remaining[j])
            /\ remaining' = SubSeq(remaining, 1, j - 1)
                              \o SubSeq(remaining, j + 1, Len(remaining))
      ]_vars

\* a round in which two different remaining spots tie for the minimum and
\* the earlier one, not at the head of the list, was taken
GreedyEveryRoundWitness ==
    /\ optPc = "loop"
    /\ rounds = 1
    /\ \E j, k \in 1..Len(optInput) :
        /\ 1 < j /\ j < k
        /\ ordered[1] = optInput[j]
        /\ <<optInput[j].lat, optInput[j].lng>> # <<optInput[k].lat, optInput[k].lng>>
        /\ haversineKm(optStart, optInput[j]) = haversineKm(optStart, optInput[k])

\* C10: orderByNearest terminates, after exactly one selection round per
\* input spot, each round shrinking remaining by one; the empty list gives
\* the empty list and a single spot gives that spot alone.
OneRoundPerSpot ==
    /\ <>(optPc = "done")
    /\ [](optPc = "done" =>
            /\ rounds = Len(optInput)
            /\ Len(remaining) = 0
            /\ (Len(optInput) = 0 => ordered = <<>>)
            /\ (Len(optInput) = 1 => ordered = optInput))
    /\ [][rounds' = rounds + 1 => Len(remaining') = Len(remaining) - 1]_vars

\* a run over a full-length list that has returned
OneRoundPerSpotWitness ==
    /\ optPc = "done"
    /\ Len(optInput) = MaxSpots
    /\ rounds = MaxSpots

(***************************************************************************)
(* Properties of the plan (checked under PlanSpec).                        *)
(***************************************************************************)
\* the step in which a suspended autoOrderPlan rewrites the plan
ReorderStep == \E r \in reorders : reorders' = reorders \ {r}

\* C11: the rewrite of the plan by autoOrderPlan keeps the visited flag of
\* each spotId: every item of the rewritten plan whose spotId was in the
\* plan before the rewrite carries the visited value an item of that spotId
\* had there, wherever the optimizer has put it.
ReorderKeepsVisited ==
    [][ReorderStep =>
          \A i \in 1..Len(planItems') :
             (\E j \in 1..Len(planItems) :
                 planItems[j].spotId = planItems'[i].spotId)
               => planItems'[i] \in Range(planItems)]_vars

\* a rewrite has changed the order of a plan and has left an unvisited item
\* in front of a visited one
ReorderKeepsVisitedWitness ==
    /\ lastEvent = Reports("optimizePlan", "Reordered")
    /\ Len(planItems) >= 2
    /\ ~planItems[1].visited
    /\ planItems[2].visited

\* C12: the rewrite of the plan by autoOrderPlan leaves its membership as
\* it is: the set of spotIds of the plan after the rewrite is the set
\* before it, items whose spot is not in the collection included.
ReorderKeepsMembership ==
    [][ReorderStep => Range(SpotIds(planItems')) = Range(SpotIds(planItems))]_vars

(***************************************************************************)
(* Properties of the geocode cache (checked under CreateSpec).             *)
(***************************************************************************)
\* the trimmed, lower-cased form of an address
NormalForm(address) == ToLowerCase(Trim(address))

\* c is the createSpot call this step starts
CreateStarts(c) ==
    /\ optCount' = optCount + 1
    /\ c \in creates'
    /\ c.optimisticId = OptimisticId(optCount')

\* c is a call waiting for POST /geocode and this step delivers the answer
\* that resolves its address
GeocodeSucceeds(c) ==
    /\ c \in creates
    /\ c.pc = "geocode"
    /\ \E d \in creates' : d.optimisticId = c.optimisticId /\ d.pc = "persist"

\* C13: once an address has been resolved, a later lookup of an address of
\* the same trimmed, lower-cased form sends no POST /geocode and gets the
\* cached result; cached results never change, and only a lookup of a form
\* not yet cached adds one, so that each form is resolved remotely at most
\* once.
ResolvedOncePerForm ==
    [][/\ \A c \in creates' :
             (CreateStarts(c) /\ NormalForm(c.addr) \in DOMAIN geoCache)
               => /\ ~c.remote
                  /\ c.pc = "persist"
                  /\ c.location = geoCache[NormalForm(c.addr)]
                  /\ geoCache' = geoCache
       /\ \A k \in DOMAIN geoCache :
             k \in DOMAIN geoCache' /\ geoCache'[k] = geoCache[k]
       /\ geoCache' # geoCache
             => \E c \in creates :
                   /\ c.pc = "geocode"
                   /\ c.remote
                   /\ NormalForm(c.addr) \notin DOMAIN geoCache
                   /\ DOMAIN geoCache' = DOMAIN geoCache \cup {NormalForm(c.addr)}]_vars

\* a second createSpot, for the address typed in upper case, that has its
\* location from the cache entry of the lower-case form without a request
ResolvedOncePerFormWitness ==
    /\ optCount = 2
    /\ <<"a">> \in DOMAIN geoCache
    /\ \E c \in creates :
          /\ c.addr = <<"A">>
          /\ ~c.remote
          /\ c.pc = "persist"
          /\ c.location = geoCache[<<"a">>]

\* C14: a lookup that fails leaves the cache as it is; a lookup of a form
\* that is not cached sends a request, and when that request is answered
\* the call gets the answer of the backend, which is then cached.
FailedLookupNotCached ==
    [][/\ \A c \in creates :
             CreateEnds(c, "GeocodeFailed") => (c.remote /\ geoCache' = geoCache)
       /\ \A c \in creates' :
             (CreateStarts(c) /\ NormalForm(c.addr) \notin DOMAIN geoCache)
               => (c.remote /\ c.pc = "geocode")
       /\ \A c \in creates :
             GeocodeSucceeds(c)
               => \E d \in creates' :
                     /\ d.optimisticId = c.optimisticId
                     /\ d.location = GeocoderAnswer(c.addr)
                     /\ d.location # NoLocation
                     /\ geoCache'[NormalForm(c.addr)] = d.location]_vars

\* a second createSpot whose lookup went to the backend and was answered:
\* the first call of the session has left nothing in the cache
FailedLookupNotCachedWitness ==
    /\ optCount = 2
    /\ \E c \in creates :
          /\ c.optimisticId = OptimisticId(2)
          /\ c.remote
          /\ c.pc = "persist"
          /\ c.location = GeocoderAnswer(c.addr)

(***************************************************************************)
(* Properties of deleteSpot.                                               *)
(***************************************************************************)
\* the step in which the suspended removeSpot call d learns that the
\* backend has deleted the spot
DeleteSucceeds(d) ==
    /\ d \in deletes
    /\ d \notin deletes'
    /\ \E r \in srvSpots : r.id = d.id
    /\ \A r \in srvSpots' : r.id # d.id

\* C15: when the backend delete of a confirmed spot succeeds, the spot is
\* no longer in the collection, no plan item references it and the
\* selection does not point at it, whatever was selected during the
\* request.
DeleteLeavesNoTrace ==
    [][\A d \in deletes :
          DeleteSucceeds(d) =>
             /\ ~HasId(spots', d.id)
             /\ \A i \in 1..Len(planItems') : planItems'[i].spotId # d.id
             /\ selectedSpot'.id # d.id]_vars

\* the step in which the suspended removeSpot call d ends while the backend
\* still holds the spot: the request was refused or never arrived
DeleteRefused(d) ==
    /\ d \in deletes
    /\ d \notin deletes'
    /\ \E r \in srvSpots' : r.id = d.id

\* C16: when the backend delete of a confirmed spot fails, the collection,
\* the plan and the selection are what they were before the answer, and
\* the failure is reported.
DeleteFailureChangesNothing ==
    [][\A d \in deletes :
          DeleteRefused(d) =>
             /\ UNCHANGED <<spots, planItems, selectedSpot>>
             /\ lastEvent' = Reports("deleteSpot", "PersistFailed")]_vars

\* a delete has just failed and the only spot of the collection, a
\* confirmed one, is still there, in the plan and selected
DeleteFailureWitness ==
    /\ lastEvent = Reports("deleteSpot", "PersistFailed")
    /\ Len(spots) = 1
    /\ ~spots[1].optimistic
    /\ selectedSpot = spots[1]
    /\ Len(planItems) = 1
    /\ planItems[1].spotId = spots[1].id

\* the ids createSpot gives its placeholders
PlaceholderIds == {OptimisticId(k) : k \in 1..MaxCreates}

PlanSpotIdsUnique ==
    \A i, j \in 1..Len(planItems) :
        planItems[i].spotId = planItems[j].spotId => i = j

\* C19: in every reachable state each entry of the collection that is not
\* a placeholder has finite numeric lat and lng, whether it came from
\* GET /spots, from a shared plan or from the response to POST /spots.
ConfirmedSpotsAreFinite ==
    \A i \in 1..Len(spots) : ~spots[i].optimistic => spots[i].numeric

(***************************************************************************)
(* Properties of savePlan (checked under RollbackSpec).                    *)
(***************************************************************************)
\* C20: savePlan on an empty plan is rejected: the step sends no
\* POST /plans (no save is in flight after it) and leaves the saved plan,
\* the saved-plans list and the plan as they are; no step at all starts a
\* save from an empty plan.
EmptyPlanIsNotSaved ==
    [][/\ (planItems = <<>> /\ SavePlan)
             => /\ ~isSavingPlan'
                /\ UNCHANGED <<savedPlan, savedPlans, planItems>>
       /\ (planItems = <<>> /\ ~isSavingPlan) => ~isSavingPlan']_vars

\* savePlan has just been rejected for an empty plan in a signed-in session
\* on the own collection, which holds a spot: nothing is being saved and
\* nothing has been saved
EmptyPlanWitness ==
    /\ lastEvent = Reports("savePlan", "EmptyPlan")
    /\ planItems = <<>>
    /\ spots # <<>>
    /\ ~isSavingPlan
    /\ savedPlan = NULL
    /\ savedPlans = <<>>

(***************************************************************************)
(* Properties of the snapshot savePlan sends (checked under SaveSpec).     *)
(***************************************************************************)
\* C21: the body of a POST /plans holds one entry per plan item of the
\* plan at the call, in plan order, with the spotId and the visited flag of
\* the item and its 0-based index as order: the order values of a body
\* are 0..n-1, each once.
SnapshotFollowsPlan ==
    [][SaveStarts =>
          /\ Len(sentPlan'.items) = Len(planItems)
          /\ \A i \in 1..Len(planItems) :
                /\ sentPlan'.items[i].spotId = planItems[i].spotId
                /\ sentPlan'.items[i].visited = planItems[i].visited
                /\ sentPlan'.items[i].order = i - 1
          /\ {sentPlan'.items[i].order : i \in 1..Len(planItems)}
                = 0..(Len(planItems) - 1)]_vars

\* a POST /plans in flight for a plan of three items, the second of them
\* visited
SnapshotFollowsPlanWitness ==
    /\ isSavingPlan
    /\ Len(sentPlan.items) = MaxItems
    /\ sentPlan.items[2].visited
    /\ ~sentPlan.items[3].visited
    /\ sentPlan.items[3].order = 2

\* C22: when POST /plans fails, the step that ends the savePlan reports
\* the failure, clears the saving flag and leaves the plan, the plan name,
\* the previous save result and the saved-plans list as they were.
SaveFailureKeepsPlan ==
    [][SavePlanDone(NULL) =>
          /\ UNCHANGED <<planItems, planName, savedPlan, savedPlans>>
          /\ ~isSavingPlan'
          /\ lastEvent' = Reports("savePlan", "PersistFailed")]_vars

\* a savePlan has just failed in a session that holds a named plan and the
\* result of an earlier save
SaveFailureWitness ==
    /\ lastEvent = Reports("savePlan", "PersistFailed")
    /\ ~isSavingPlan
    /\ planItems # <<>>
    /\ planName # <<>>
    /\ savedPlan \in PlanIds
    /\ savedPlans # <<>>

(***************************************************************************)
(* Properties of the token guard (checked under FormSpec).                 *)
(***************************************************************************)
\* no step sends a request that carries the token: no POST /geocode, no
\* POST /spots, no DELETE /spots, no GET /spots and no POST /plans appears
NoRequestSent ==
    /\ \A c \in creates' :
          c.pc \in {"geocode", "persist"}
            => \E b \in creates :
                  b.optimisticId = c.optimisticId /\ b.pc = c.pc
    /\ deletes' \subseteq deletes
    /\ {l \in loads' : l.kind # "shared"} \subseteq loads
    /\ isSavingPlan' => isSavingPlan

\* the step in which a createSpot that has its geocode answer would send
\* POST /spots, and ends instead
PersistNotSent ==
    /\ isSaving
    /\ ~isSaving'
    /\ geoCache' # geoCache

\* C23: while no valid token is available no step sends an authenticated
\* request; createSpot, deleteSpot and savePlan invoked then leave the
\* collection and the plan as they are, and a createSpot that can not send
\* its POST /spots for lack of a token ends with the not-authenticated
\* outcome.
NoTokenNoRequest ==
    [][~hasToken =>
          /\ NoRequestSent
          /\ \A form \in Forms :
                Submit(form.name, form.url, form.address)
                  => UNCHANGED <<spots, planItems>>
          /\ \A spot \in Range(spots) :
                RemoveSpot(spot) => UNCHANGED <<spots, planItems>>
          /\ SavePlan => UNCHANGED <<spots, planItems>>
          /\ PersistNotSent
                => lastEvent' = Reports("createSpot", "NotAuthenticated")]_vars

(***************************************************************************)
(* Properties of the steps of one createSpot (checked under CreateSpec).   *)
(***************************************************************************)
\* the call has its geocode result: the geocoder's answer for its address,
\* which is a location and is in the cache
Resolved(c) ==
    /\ c.location # NoLocation
    /\ c.location = GeocoderAnswer(c.addr)
    /\ GeoKey(c.addr) \in DOMAIN geoCache
    /\ geoCache[GeoKey(c.addr)] = c.location

\* C24: within one createSpot, POST /spots is in flight or handled only
\* for a call whose geocode step has produced a location, and a record the
\* backend stores for it carries exactly that location, not the default
\* center of the placeholder.
PersistAfterGeocode ==
    [][/\ \A c \in creates' : c.pc \in {"persist", "committed"} => Resolved(c)'
       /\ \A record \in srvSpots' \ srvSpots :
             \E c \in creates :
                /\ c.pc = "persist"
                /\ Resolved(c)
                /\ record.lat = c.location.lat
                /\ record.lng = c.location.lng
                /\ <<record.lat, record.lng>>
                      # <<defaultCenter.lat, defaultCenter.lng>>]_vars

\* a createSpot whose geocode request was answered has had its record
\* stored at the geocoded place
PersistAfterGeocodeWitness ==
    \E c \in creates :
       /\ c.pc = "committed"
       /\ c.remote
       /\ c.created.lat = GeocoderAnswer(c.addr).lat
       /\ \E record \in srvSpots :
             record.id = c.created.id /\ record.lat = c.location.lat

\* the field is empty after trimming: it holds nothing but spaces
OnlySpaces(text) == \A i \in 1..Len(text) : text[i] = " "

\* C25: a createSpot whose name, video URL or address is empty after
\* trimming has no effect: no placeholder is inserted, the selection and
\* the in-flight flag stay as they are, no geocode or persist call starts;
\* when the guards before the validation pass, it ends with
\* ValidationError.
BlankFormRejected ==
    [][\A form \in Forms :
          /\ OnlySpaces(form.name) \/ OnlySpaces(form.url) \/ OnlySpaces(form.address)
          /\ Submit(form.name, form.url, form.address)
          => /\ UNCHANGED <<spots, selectedSpot, isSaving, creates, optCount,
                            geoCache, srvSpots, planItems>>
             /\ (~isPublicView /\ ~isSaving /\ hasToken)
                   => lastEvent' = Reports("createSpot", "ValidationError")]_vars

\* a form with a blank field was submitted, over a collection that holds
\* spots, and was rejected
BlankFormRejectedWitness ==
    /\ lastEvent = Reports("createSpot", "ValidationError")
    /\ spots # <<>>
    /\ ~isSaving
    /\ creates = {}

\* C26: when a createSpot succeeds, a selection that still points at the
\* placeholder is replaced by the record the backend returned; a selection
\* that was moved to another spot or cleared during the call is left as it
\* is.
SelectionFollowsPlaceholder ==
    [][\A c \in creates :
          c.pc = "committed" /\ CreateEnds(c, "Created")
          => IF selectedSpot.id = c.optimisticId
             THEN /\ selectedSpot' = c.created
                  /\ ~selectedSpot'.optimistic
                  /\ selectedSpot'.id # c.optimisticId
             ELSE selectedSpot' = selectedSpot]_vars

\* a createSpot has just succeeded while the selection was on another spot
\* of the collection, and the selection is still there
SelectionFollowsWitness ==
    /\ lastEvent = Reports("createSpot", "Created")
    /\ selectedSpot.id \in 1..InitSpots
    /\ HasId(spots, selectedSpot.id)
    /\ \E i \in 1..Len(spots) : spots[i].id > InitSpots

\* the createSpot calls no backend response has reached yet, no other
\* handler having run since they passed their guards
Unanswered ==
    {c \in creates : c.quiet /\ (c.pc = "geocode" \/ ~c.remote)}

\* the collection is this placeholder, selected, followed by the spots
\* that were there when the call started
PlaceholderInFront(c, place) ==
    LET placeholder == [id |-> c.optimisticId, lat |-> place.lat, lng |-> place.lng,
                        optimistic |-> TRUE, numeric |-> TRUE,
     text |-> FALSE]
    IN /\ spots = <<placeholder>> \o c.pre.spots
       /\ ~HasId(c.pre.spots, c.optimisticId)
       /\ selectedSpot = placeholder

\* C27 as stated: once createSpot has passed its guards and before any
\* backend response arrives, the collection holds at index 0 an optimistic
\* placeholder with a fresh id and the default-center coordinates, which is
\* the selection, followed by the previous spots in their order.
PlaceholderAtDefaultCenter ==
    \A c \in Unanswered : PlaceholderInFront(c, defaultCenter)

\* C27: once createSpot has passed its guards and before any backend
\* response arrives, the collection holds at index 0 an optimistic
\* placeholder with a fresh id, which is the selection, followed by the
\* previous spots in their order; the placeholder has the default-center
\* coordinates while the geocode request is pending, and the cached
\* coordinates when the address was resolved from the geocode cache.
PlaceholderAtFront ==
    \A c \in Unanswered :
       PlaceholderInFront(c, IF c.pc = "geocode" THEN defaultCenter ELSE c.location)

\* a call has had its address resolved from the cache over a collection
\* that held a spot, nothing else having run: its placeholder is in front,
\* at the cached place
PlaceholderAtFrontWitness ==
    \E c \in Unanswered :
       /\ c.pc = "persist"
       /\ Len(spots) >= 2
       /\ spots[1].id = c.optimisticId
       /\ spots[1].optimistic
       /\ <<spots[1].lat, spots[1].lng>> = <<c.location.lat, c.location.lng>>
       /\ c.location # defaultCenter

(***************************************************************************)
(* Properties of the plan handlers (checked under ItemSpec).               *)
(***************************************************************************)
\* C28: toggleVisited(spotId) flips the visited flag of the plan item with
\* that spotId and leaves the length of the plan, the order of its items
\* and the flag of every other item as they are; with a spotId that is not
\* in the plan the plan stays as it is; a second toggle of the same spotId
\* restores the plan. The collection, the plan name and the saved plans are
\* not written.
ToggleFlipsOneFlag ==
    [][\A spotId \in HandlerIds :
          toggleVisited(spotId)
          => /\ Len(planItems') = Len(planItems)
             /\ \A i \in 1..Len(planItems) :
                   /\ planItems'[i].spotId = planItems[i].spotId
                   /\ planItems'[i].visited =
                         IF planItems[i].spotId = spotId
                         THEN ~planItems[i].visited
                         ELSE planItems[i].visited
             /\ (\A i \in 1..Len(planItems) : planItems[i].spotId # spotId)
                   => planItems' = planItems
             /\ Toggled(planItems', spotId) = planItems
             /\ UNCHANGED <<spots, planName, savedPlan, savedPlans, srvSpots,
                            deletes, loads>>]_vars

\* an item of a plan of several items has just been toggled back to
\* unvisited, next to a visited one
ToggleFlipsWitness ==
    /\ lastEvent = Reports("toggleVisited", "Toggled")
    /\ Len(planItems) >= 2
    /\ \E i, j \in 1..Len(planItems) :
          planItems[i].visited /\ ~planItems[j].visited

\* the plan without its item at position k
WithoutItemAt(plan, k) == SubSeq(plan, 1, k - 1) \o SubSeq(plan, k + 1, Len(plan))

\* removeFromPlan(spotId) takes the item with that spotId out of the plan,
\* the other items keeping their order and flags, and does not write the
\* collection
RemovesOneItem(spotId) ==
    /\ IF \E k \in 1..Len(planItems) : planItems[k].spotId = spotId
       THEN \E k \in 1..Len(planItems) :
               /\ planItems[k].spotId = spotId
               /\ planItems' = WithoutItemAt(planItems, k)
       ELSE planItems' = planItems
    /\ \A i \in 1..Len(planItems') : planItems'[i].spotId # spotId
    /\ UNCHANGED <<spots, srvSpots, deletes, loads>>

ClearPlanResets ==
    [][ClearPlan
         => /\ planItems' = <<>>
            /\ selectedSpot' = NoSpot
            /\ savedPlan' = NULL
            /\ planName' = <<>>
            /\ UNCHANGED <<spots, savedPlans, srvSpots, sentPlan, isSaving>>
            /\ NoRequestSent]_vars

\* a plan was saved and then cleared: the saved plan is in the list, the
\* save result, the plan, its name and the selection are reset, the
\* collection is still loaded
ClearPlanWitness ==
    /\ savedPlans # <<>>
    /\ savedPlan = NULL
    /\ planItems = <<>>
    /\ planName = <<>>
    /\ selectedSpot = NoSpot
    /\ spots # <<>>
    /\ ~isSavingPlan

(***************************************************************************)
(* Properties of loadSharedPlan (checked under ShareSpec).                 *)
(***************************************************************************)
\* the positions of the snapshot items that have a non-empty string spotId
KeptItems(items) == {i \in 1..Len(items) : items[i].text /\ items[i].spotId # 0}

\* the order an item counts with: the snapshot's, 0 if that is not a number
CountedOrder(x) == IF x.ordered THEN x.order ELSE 0

\* the place of item i among the kept items: after every kept item of a
\* smaller order and every earlier kept item of the same order
PlaceOf(items, i) ==
    Cardinality({j \in KeptItems(items) :
                    \/ CountedOrder(items[j]) < CountedOrder(items[i])
                    \/ CountedOrder(items[j]) = CountedOrder(items[i]) /\ j <= i})

\* C31: loadSharedPlan makes the plan of exactly the snapshot items that
\* have a non-empty string spotId, in non-decreasing order of the order
\* field (0 where it is not a number, ties in snapshot order), each reduced
\* to its spotId and visited flag.
SharedPlanSorted ==
    [][\A l \in loads :
          LoadSharedDone(l, srvPlan)
          => /\ Len(planItems') = Cardinality(KeptItems(srvPlan.items))
             /\ \A i \in KeptItems(srvPlan.items) :
                   planItems'[PlaceOf(srvPlan.items, i)] =
                      [spotId |-> srvPlan.items[i].spotId,
                       visited |-> srvPlan.items[i].visited]]_vars

\* a snapshot has just been loaded whose first item was dropped and whose
\* other two items changed places
SharedPlanSortedWitness ==
    /\ lastEvent = Reports("shared", "Loaded")
    /\ Len(srvPlan.items) = 3
    /\ 1 \notin KeptItems(srvPlan.items)
    /\ Len(planItems) = 2
    /\ planItems[1].spotId = srvPlan.items[3].spotId
    /\ planItems[2].spotId = srvPlan.items[2].spotId
    /\ planItems[1].spotId # planItems[2].spotId

\* the entries of a snapshot, spots list first, then the items, each as
\* [id, named, addressed, finite, lat, lng] (id 0: no non-empty string id)
Entries(payload) ==
    payload.spots \o
      [i \in 1..Len(payload.items) |->
          [id |-> IF payload.items[i].text THEN payload.items[i].spotId ELSE 0,
           named |-> payload.items[i].named,
           addressed |-> payload.items[i].addressed,
           finite |-> payload.items[i].finite,
           lat |-> payload.items[i].lat, lng |-> payload.items[i].lng]]

\* the positions of the entries with a non-empty id, name and address
Complete(entries) ==
    {i \in 1..Len(entries) :
        entries[i].id # 0 /\ entries[i].named /\ entries[i].addressed}

\* the complete entries no later complete entry of the same id replaces
Last(entries) ==
    {i \in Complete(entries) :
        \A j \in Complete(entries) : entries[j].id = entries[i].id => j <= i}

\* the displayable spots are among the details, each comes from a complete
\* entry with finite coordinates, and no id appears twice in either
DisplayableAmongDetails(entries) ==
    /\ \A i \in 1..Len(spots') : HasId(details', spots'[i].id)
    /\ \A i \in 1..Len(spots') :
          /\ spots'[i].numeric
          /\ \E k \in Complete(entries) :
                /\ entries[k].id = spots'[i].id
                /\ entries[k].finite
                /\ <<entries[k].lat, entries[k].lng>> = <<spots'[i].lat, spots'[i].lng>>
    /\ \A i, j \in 1..Len(spots') : spots'[i].id = spots'[j].id => i = j
    /\ \A i, j \in 1..Len(details') : details'[i].id = details'[j].id => i = j

\* C32 as stated: after loadSharedPlan, for both response shapes, the
\* displayable spots are a subset of the details; every displayable spot
\* has a non-empty id, name and address and finite coordinates; every
\* entry with a non-empty id, name and address but coordinates that are not
\* finite is in the details and not among the displayable spots; each id
\* appears at most once in either.
EveryUnmappableKept ==
    [][\A l \in loads :
          LoadSharedDone(l, srvPlan)
          => LET entries == Entries(srvPlan)
             IN /\ DisplayableAmongDetails(entries)
                /\ \A i \in Complete(entries) :
                      ~entries[i].finite
                        => /\ entries[i] \in Range(details')
                           /\ ~HasId(spots', entries[i].id)]_vars

\* C32: after loadSharedPlan, for both response shapes, the displayable
\* spots are a subset of the details; every displayable spot has a
\* non-empty id, name and address and finite coordinates; of the entries
\* with a non-empty id, name and address, the last one of each id is in the
\* details, and is among the displayable spots exactly if its coordinates
\* are finite; each id appears at most once in either.
LastEntryKept ==
    [][\A l \in loads :
          LoadSharedDone(l, srvPlan)
          => LET entries == Entries(srvPlan)
             IN /\ DisplayableAmongDetails(entries)
                /\ \A i \in Last(entries) :
                      /\ entries[i] \in Range(details')
                      /\ entries[i].finite <=> HasId(spots', entries[i].id)
                      /\ entries[i].finite
                            => getSpotById(spots', entries[i].id).lat = entries[i].lat
                /\ Len(details') = Cardinality(Last(entries))]_vars

\* a snapshot without a spots list has just been loaded, whose items carry
\* the spot fields: one spot is displayed, another has details only
LastEntryKeptWitness ==
    /\ lastEvent = Reports("shared", "Loaded")
    /\ srvPlan.spots = <<>>
    /\ Len(spots) = 1
    /\ Len(details) = 2
    /\ \E i \in 1..Len(details) : ~details[i].finite /\ ~HasId(spots, details[i].id)

(* ---------------- C33 ---------------- *)

\* an autoOrderPlan is waiting for getStart()
Waiting == reorders # {}

\* an autoOrderPlan is waiting for the user to answer the permission prompt
AtPrompt == \E r \in reorders : r.pc = "prompt"

\* C33: reorderPlan never waits indefinitely: every autoOrderPlan that
\* waits for its start location eventually completes and rewrites the plan.
\* It does not hold: the timeout passed to getCurrentPosition() does not
\* run while the permission prompt is open.
ReorderCompletes == Waiting ~> ~Waiting

\* what does hold: a wait ends once the permission is decided
DecidedCompletes == (Waiting /\ ~AtPrompt) ~> ~Waiting

\* and it ends with the plan rewritten from the device position when the
\* success callback ran, from defaultCenter otherwise
StartFollowsOutcome ==
    [][\A r \in reorders, outcome \in GeoOutcomes :
          ReorderDone(r, outcome) =>
              planItems' = Reordered(
                  orderByNearest(IF outcome = "position" THEN DevicePosition
                                 ELSE defaultCenter, r.list), planItems)]_vars

(* ---------------- C34 ---------------- *)

\* a step of createSpot, deleteSpot, addToPlan or savePlan
ViewerCalls ==
    \/ \E form \in Forms : Submit(form.name, form.url, form.address)
    \/ \E spot \in Range(spots) : RemoveSpot(spot)
    \/ \E spot \in Range(spots) : addToPlan(spot, MaxItems)
    \/ SavePlan

\* C34: while a shared plan is open, createSpot, deleteSpot, addToPlan and
\* savePlan change neither the spot collection nor the plan and send no
\* POST /spots, DELETE /spots/{id} or POST /plans (nor a POST /geocode).
PublicViewReadOnly ==
    [][(sharedPlanId # NULL /\ ViewerCalls) =>
          /\ spots' = spots
          /\ planItems' = planItems
          /\ NoRequestSent
          /\ sentPlan' = sentPlan
          /\ srvSpots' = srvSpots]_vars

\* a signed-in viewer has pressed Save plan on a shared plan with items
PublicViewReadOnlyWitness ==
    /\ sharedPlanId # NULL
    /\ hasToken
    /\ Len(spots) >= 2
    /\ Len(planItems) >= 1
    /\ lastEvent.op = "savePlan"
    /\ lastEvent.outcome = "PublicView"

(* ---------------- C35 ---------------- *)

\* the id is one that handleSubmit gave to a placeholder
IsPlaceholderId(id) == \E k \in 1..optCount : id = OptimisticId(k)

\* C35: a plan item references a placeholder id only while the createSpot
\* of that placeholder is in flight: once it has finished, by success or by
\* rollback, no plan item carries its id. It does not hold: handleSubmit
\* rewrites spots and selectedSpot and leaves planItems alone.
NoPlaceholderInPlan ==
    \A i \in 1..Len(planItems) :
        IsPlaceholderId(planItems[i].spotId) =>
            \E c \in creates : c.optimisticId = planItems[i].spotId

(* ---------------- C36 ---------------- *)

\* the step in which the success response of POST /spots reaches a
\* createSpot whose placeholder removeSpot has removed meanwhile
LateSuccess(c) == PersistDone(c, "ok", "number") /\ c.dropped

\* C36 as stated: after a late success the collection holds neither the
\* placeholder nor the record the backend returned, and no other entry is
\* modified
LateSuccessLeavesNeither ==
    [][\A c \in creates :
          LateSuccess(c) =>
              /\ spots' = spots
              /\ \A i \in 1..Len(spots') :
                    /\ spots'[i].id # c.optimisticId
                    /\ spots'[i].id # c.created.id]_vars

\* C36: a late success adds neither the placeholder nor the record the
\* backend returned: it leaves the collection, the selection and the plan
\* exactly as they were (the record is in the collection only where a
\* load of the collection has brought it meanwhile)
LateSuccessAddsNothing ==
    [][\A c \in creates :
          LateSuccess(c) =>
              /\ spots' = spots
              /\ selectedSpot' = selectedSpot
              /\ planItems' = planItems
              /\ \A i \in 1..Len(spots') : spots'[i].id # c.optimisticId]_vars

\* removeSpot has removed the placeholder of a createSpot whose record the
\* backend has stored since, beside a spot of the loaded collection: the
\* success response is on its way
LateSuccessWitness ==
    \E c \in creates :
        /\ c.dropped
        /\ c.pc = "committed"
        /\ Len(spots) >= 1
        /\ \A i \in 1..Len(spots) : spots[i].id # c.created.id

(* ---------------- C37 ---------------- *)

\* the spots a plan names
PlanIdsOf(plan) == {plan[i].spotId : i \in 1..Len(plan)}

\* C37: the rewrite that ends an autoOrderPlan keeps the items the plan has
\* at that moment, whatever was added or removed during the wait: it drops
\* no item and inserts none. It does not hold: the rewrite is built from the
\* plan of the render in which Optimize was clicked.
ReorderKeepsItems ==
    [][\A r \in reorders, outcome \in GeoOutcomes :
          ReorderDone(r, outcome) =>
              PlanIdsOf(planItems') = PlanIdsOf(planItems)]_vars

\* the part that holds: an item that was in the plan at the click and is
\* still in it keeps its visited flag
ReorderKeepsFlags ==
    [][\A r \in reorders, outcome \in GeoOutcomes :
          ReorderDone(r, outcome) =>
              \A i \in 1..Len(planItems), j \in 1..Len(planItems') :
                  planItems[i].spotId = planItems'[j].spotId =>
                      planItems[i].visited = planItems'[j].visited]_vars

(* ---------------- C38 ---------------- *)

\* C38: the creation-in-flight flag is always eventually released: provided
\* each backend call eventually returns or fails, every createSpot that set
\* isSaving clears it, after which a createSpot is accepted again.
BusyReleased == isSaving ~> ~isSaving

\* a second createSpot has been accepted after the first one ended
BusyReleasedWitness ==
    /\ isSaving
    /\ optCount >= 2
    /\ \E c \in creates : c.optimisticId = OptimisticId(optCount)

(* ---------------- C39 ---------------- *)

\* C39: loadSharedPlan applied to the snapshot that savePlan builds yields
\* the plan that was saved: the same {spotId, visited} items in the same
\* order.
SaveLoadRoundTrip ==
    [][SaveStarts => SharedItems(AsStored(sentPlan')) = planItems]_vars

\* a plan of three items has been sent that is not in the order of its
\* spotIds and has visited and unvisited items
SaveLoadRoundTripWitness ==
    /\ isSavingPlan
    /\ Len(sentPlan.items) >= 3
    /\ sentPlan.items[1].spotId > sentPlan.items[2].spotId
    /\ sentPlan.items[1].visited
    /\ ~sentPlan.items[2].visited
    /\ SharedItems(AsStored(sentPlan)) = planItems

(* ---------------- C40 ---------------- *)

\* the spot of the first unvisited item of the plan after the step, as the
\* collection after the step holds it (NoSpot where there is none)
NextUnvisitedSpot ==
    LET next == FirstUnvisited(planItems')
    IN IF next = NoItem THEN NoSpot ELSE getSpotById(spots', next.spotId)

\* the follow-mode effect has not moved the selection: it is what it was,
\* or the handler has cleared it (Clear plan, removal of the focused item),
\* and it is what it was where the step has only changed visited flags
LeftAlone ==
    /\ selectedSpot' \in {selectedSpot, NoSpot}
    /\ SpotIds(planItems') = SpotIds(planItems) => selectedSpot' = selectedSpot

FollowSkipsNonFinite ==
    [][(planItems' # planItems /\ FirstUnvisited(planItems') # NoItem) =>
          /\ (NextUnvisitedSpot = NoSpot
                \/ (~NextUnvisitedSpot.numeric /\ ~NextUnvisitedSpot.text))
                => LeftAlone
          /\ (NextUnvisitedSpot # NoSpot /\ NextUnvisitedSpot.text)
                => /\ selectedSpot'.id = NextUnvisitedSpot.id
                   /\ selectedSpot'.numeric]_vars

====
